---- MODULE Spec2Model ----
(***************************************************************************)
(* Model of the LLM translator: the provider adapters of                   *)
(* src/llmtranslate/providers.js (one translateStream / translate call,    *)
(* driven chunk by chunk) and the two DOMContentLoaded handlers of         *)
(* src/llmtranslate/app.js that call them.                                 *)
(*                                                                         *)
(* Text is a sequence of one-character strings.  The wire is a sequence    *)
(* of units: the characters of a line prefix ("d","a","t","a",":"," "),    *)
(* the line terminator "\n", and the tokens of a JSON text: "{" and "}"    *)
(* for an object's opening and closing syntax, an enum unit for a          *)
(* key/value pair with a fixed value ("type=content_block_delta"), a key   *)
(* unit for a quoted key path followed by the characters of its string     *)
(* value.  A chunk is any contiguous piece of the wire, so a chunk may end *)
(* inside a prefix, inside a JSON text or inside a string value.           *)
(***************************************************************************)
EXTENDS Integers, Sequences, FiniteSets, TLC

(***************************************************************************)
(* String primitives (JavaScript String methods on character sequences)    *)
(***************************************************************************)

\* s.startsWith(p)
StartsWith(s, p) == Len(s) >= Len(p) /\ SubSeq(s, 1, Len(p)) = p

\* s.slice(n), n >= 0
Slice(s, n) == SubSeq(s, n + 1, Len(s))

\* s.indexOf(p): 0-based index of the first occurrence, -1 when absent
IndexOf(s, p) ==
    LET hits == {i \in 0..(Len(s) - Len(p)) :
                    s[i + 1] = p[1] /\ SubSeq(s, i + 1, i + Len(p)) = p}
    IN  IF hits = {} THEN -1 ELSE CHOOSE i \in hits : \A j \in hits : i <= j

\* s.substring(a, b): arguments are clamped to 0..length and swapped when a > b
Substring(s, a, b) ==
    LET ca == IF a < 0 THEN 0 ELSE IF a > Len(s) THEN Len(s) ELSE a
        cb == IF b < 0 THEN 0 ELSE IF b > Len(s) THEN Len(s) ELSE b
        lo == IF ca <= cb THEN ca ELSE cb
        hi == IF ca <= cb THEN cb ELSE ca
    IN  SubSeq(s, lo + 1, hi)

\* s.substring(a)
SubstringFrom(s, a) == Substring(s, a, Len(s))

WhiteSpace == {" ", "\n"}

RECURSIVE TrimStart(_)
TrimStart(s) ==
    IF s # <<>> /\ Head(s) \in WhiteSpace THEN TrimStart(Tail(s)) ELSE s

RECURSIVE TrimEnd(_)
TrimEnd(s) ==
    IF s # <<>> /\ s[Len(s)] \in WhiteSpace THEN TrimEnd(SubSeq(s, 1, Len(s) - 1)) ELSE s

\* s.trim()
Trim(s) == TrimEnd(TrimStart(s))

\* chunk.split('\n'): the pieces between terminators, the last piece included
RECURSIVE SplitLines(_)
SplitLines(s) ==
    LET nl == IndexOf(s, <<"\n">>)
    IN  IF nl = -1 THEN <<s>>
        ELSE <<SubSeq(s, 1, nl)>> \o SplitLines(Slice(s, nl + 1))

ThinkOpen  == <<"<", "t", "h", "i", "n", "k", ">">>
ThinkClose == <<"<", "/", "t", "h", "i", "n", "k", ">">>

\* s.replace(/<\/?think>/g, ''): left to right, non-overlapping
RECURSIVE StripThinkTags(_)
StripThinkTags(s) ==
    IF s = <<>> THEN <<>>
    ELSE IF StartsWith(s, ThinkOpen) THEN StripThinkTags(Slice(s, Len(ThinkOpen)))
    ELSE IF StartsWith(s, ThinkClose) THEN StripThinkTags(Slice(s, Len(ThinkClose)))
    ELSE <<Head(s)>> \o StripThinkTags(Tail(s))

(***************************************************************************)
(* JSON texts on the wire                                                  *)
(***************************************************************************)

DataPrefix == <<"d", "a", "t", "a", ":", " ">>
DoneSentinel == <<"[DONE]">>

KContent   == "choices[0].delta.content"
KReasoning == "choices[0].delta.reasoning_content"
KGemini    == "candidates[0].content.parts[0].text"
KOllama    == "message.content"
KThinking  == "delta.thinking"
KText      == "delta.text"
KErrMsg    == "error.message"

KMessage    == "choices[0].message.content"
KClaudeText == "content[0].text"

StrKeys == {KContent, KReasoning, KGemini, KOllama, KThinking, KText, KErrMsg,
            KMessage, KClaudeText}

EBlockStart == "type=content_block_start"
EBlockDelta == "type=content_block_delta"
EBlockThinking == "content_block.type=thinking"
EBlockText  == "content_block.type=text"
EThinkingDelta == "delta.type=thinking_delta"
ETextDelta  == "delta.type=text_delta"

EnumUnits == {EBlockStart, EBlockDelta, EBlockThinking, EBlockText,
              EThinkingDelta, ETextDelta}

StructUnits == {"{", "}", "\n", "null", "[DONE]"}

NotJson == [ok |-> FALSE, isNull |-> FALSE, enums |-> {}, strs |-> <<>>]

RECURSIVE JsonItems(_, _, _)
JsonItems(body, cur, acc) ==
    IF body = <<>> THEN acc
    ELSE LET u == Head(body) IN
         IF u \in EnumUnits
         THEN JsonItems(Tail(body), "", [acc EXCEPT !.enums = @ \cup {u}])
         ELSE IF u \in StrKeys
         THEN JsonItems(Tail(body), u, [acc EXCEPT !.strs = (u :> <<>>) @@ @])
         ELSE IF u \in StructUnits \/ cur = ""
         THEN NotJson
         ELSE JsonItems(Tail(body), cur, [acc EXCEPT !.strs[cur] = Append(@, u)])

\* JSON.parse(data): ok = FALSE stands for the SyntaxError it throws
JSONParse(data) ==
    IF data = <<"null">> THEN [NotJson EXCEPT !.ok = TRUE, !.isNull = TRUE]
    ELSE IF Len(data) >= 2 /\ data[1] = "{" /\ data[Len(data)] = "}"
    THEN JsonItems(SubSeq(data, 2, Len(data) - 1), "",
                   [NotJson EXCEPT !.ok = TRUE])
    ELSE NotJson

\* p.a?.b?.c for a string-valued path: <<>> stands for undefined and for ''
\* (the adapters only test the value for truthiness before using it)
Field(p, k) == IF k \in DOMAIN p.strs THEN p.strs[k] ELSE <<>>

(***************************************************************************)
(* The read loop of translateStream, one adapter at a time                 *)
(***************************************************************************)

\* One callback invocation.  arg is the text passed (the error object for
\* onError), arg2 the second argument of onDone (<<>> where the adapter
\* passes none).
Callback(name, a, b) == [cb |-> name, arg |-> a, arg2 |-> b]

\* The locals of one read loop: fullContent (fullText in LlamaCppProvider),
\* fullReasoning (fullThinking in ClaudeProvider), currentBlockType, and
\* the callbacks invoked so far, in order.
NewStream == [fullContent |-> <<>>, fullReasoning |-> <<>>,
              currentBlockType |-> "null", log |-> <<>>]

\* the accumulator grows but the callback gets the latest delta alone
AppendContentBareDelta(st, delta) ==
    IF delta = <<>> THEN st
    ELSE [st EXCEPT !.fullContent = @ \o delta,
                    !.log = Append(@, Callback("onContent", delta, <<>>))]

\* fullContent += delta; onContent(fullContent), guarded by `if (delta)`
AppendContent(st, delta) ==
    IF delta = <<>> THEN st
    ELSE LET full == st.fullContent \o delta
         IN  [st EXCEPT !.fullContent = full,
                        !.log = Append(@, Callback("onContent", full, <<>>))]

\* fullThinking += delta.thinking; onReasoning(fullThinking)
AppendReasoning(st, delta) ==
    IF delta = <<>> THEN st
    ELSE LET full == st.fullReasoning \o delta
         IN  [st EXCEPT !.fullReasoning = full,
                        !.log = Append(@, Callback("onReasoning", full, <<>>))]

\* the line loop without its inner try/catch: the SyntaxError of JSON.parse
\* leaves the loop and reaches onError
OpenAILineParseFatal(st, line) ==
    IF ~StartsWith(line, DataPrefix) THEN st
    ELSE LET data == Slice(line, 6)
             parsed == JSONParse(data)
         IN  IF data = DoneSentinel THEN st
             ELSE IF ~parsed.ok \/ parsed.isNull
             THEN [st EXCEPT !.log = Append(@, Callback("onError", <<>>, <<>>))]
             ELSE AppendContent(st, Field(parsed, KContent))

\* body of `for (const line of lines)` in OpenAIProvider and
\* OpenAICompatibleProvider
OpenAILine(st, line) ==
    IF ~StartsWith(line, DataPrefix) THEN st
    ELSE LET data == Slice(line, 6)
             parsed == JSONParse(data)
         IN  IF data = DoneSentinel THEN st
             ELSE IF ~parsed.ok \/ parsed.isNull THEN st
             ELSE AppendContent(st, Field(parsed, KContent))

\* a line loop that routes a delta by the block type announced last: to the
\* reasoning inside a thinking block, to the content otherwise
ClaudeLineByBlockType(st, line) ==
    IF ~StartsWith(line, DataPrefix) THEN st
    ELSE LET data == Slice(line, 6)
             parsed == JSONParse(data)
             started == IF EBlockStart \in parsed.enums
                        THEN [st EXCEPT !.currentBlockType =
                                 IF EBlockThinking \in parsed.enums THEN "thinking"
                                 ELSE IF EBlockText \in parsed.enums THEN "text"
                                 ELSE "undefined"]
                        ELSE st
             delta == Field(parsed, KThinking) \o Field(parsed, KText)
         IN  IF data = <<>> \/ data = DoneSentinel THEN st
             ELSE IF ~parsed.ok \/ parsed.isNull THEN st
             ELSE IF EBlockDelta \notin parsed.enums THEN started
             ELSE IF started.currentBlockType = "thinking"
             THEN AppendReasoning(started, delta)
             ELSE AppendContent(started, delta)

\* body of the line loop in ClaudeProvider
ClaudeLine(st, line) ==
    IF ~StartsWith(line, DataPrefix) THEN st
    ELSE LET data == Slice(line, 6)
             parsed == JSONParse(data)
             started == IF EBlockStart \in parsed.enums
                        THEN [st EXCEPT !.currentBlockType =
                                 IF EBlockThinking \in parsed.enums THEN "thinking"
                                 ELSE IF EBlockText \in parsed.enums THEN "text"
                                 ELSE "undefined"]
                        ELSE st
             thought == IF EBlockDelta \in parsed.enums /\ EThinkingDelta \in parsed.enums
                        THEN AppendReasoning(started, Field(parsed, KThinking))
                        ELSE started
         IN  IF data = <<>> \/ data = DoneSentinel THEN st
             ELSE IF ~parsed.ok \/ parsed.isNull THEN st
             ELSE IF EBlockDelta \in parsed.enums /\ ETextDelta \in parsed.enums
             THEN AppendContent(thought, Field(parsed, KText))
             ELSE thought

\* body of the line loop in GeminiProvider
GeminiLine(st, line) ==
    IF ~StartsWith(line, DataPrefix) THEN st
    ELSE LET data == Slice(line, 6)
             parsed == JSONParse(data)
         IN  IF data = <<>> THEN st
             ELSE IF ~parsed.ok \/ parsed.isNull THEN st
             ELSE AppendContent(st, Field(parsed, KGemini))

\* body of the line loop in OllamaProvider
OllamaLine(st, line) ==
    LET parsed == JSONParse(line)
    IN  IF Trim(line) = <<>> THEN st
        ELSE IF ~parsed.ok \/ parsed.isNull THEN st
        ELSE AppendContent(st, Field(parsed, KOllama))

\* the <think> fallback applied to fullText: [thinking, output, tagged]
InlineThink(fullText, fullReasoning) ==
    LET thinkStart == IndexOf(fullText, ThinkOpen)
        thinkEnd == IndexOf(fullText, ThinkClose)
        thinking == IF thinkEnd # -1
                    THEN Substring(fullText, thinkStart + 7, thinkEnd)
                    ELSE SubstringFrom(fullText, thinkStart + 7)
        output == IF thinkEnd # -1
                  THEN Substring(fullText, 0, thinkStart) \o SubstringFrom(fullText, thinkEnd + 8)
                  ELSE Substring(fullText, 0, thinkStart)
    IN  IF thinkStart = -1
        THEN [thinking |-> fullReasoning, output |-> fullText, tagged |-> FALSE]
        ELSE [thinking |-> thinking, output |-> output, tagged |-> TRUE]

\* `if (delta?.content) { ... }` of LlamaCppProvider.translateStream
LlamaContent(st, delta) ==
    IF delta = <<>> THEN st
    ELSE LET fullText == st.fullContent \o delta
             sep == InlineThink(fullText, st.fullReasoning)
             output == IF sep.tagged THEN Trim(StripThinkTags(sep.output)) ELSE sep.output
             thinking == IF sep.tagged THEN Trim(StripThinkTags(sep.thinking)) ELSE sep.thinking
             cbs == (IF sep.tagged /\ thinking # <<>>
                     THEN <<Callback("onReasoning", thinking, <<>>)>> ELSE <<>>)
                    \o <<Callback("onContent", output, <<>>)>>
         IN  [st EXCEPT !.fullContent = fullText, !.log = @ \o cbs]

\* body of the line loop in LlamaCppProvider
LlamaCppLine(st, line) ==
    IF ~StartsWith(line, DataPrefix) THEN st
    ELSE LET data == Slice(line, 6)
             parsed == JSONParse(data)
         IN  IF data = DoneSentinel THEN st
             ELSE IF ~parsed.ok \/ parsed.isNull THEN st
             ELSE LlamaContent(AppendReasoning(st, Field(parsed, KReasoning)),
                               Field(parsed, KContent))

ProcessLine(provider, st, line) ==
    CASE provider \in {"openai", "openai-compatible"} -> OpenAILine(st, line)
      [] provider = "claude" -> ClaudeLine(st, line)
      [] provider = "gemini" -> GeminiLine(st, line)
      [] provider = "ollama" -> OllamaLine(st, line)
      [] provider = "llamacpp" -> LlamaCppLine(st, line)

RECURSIVE ProcessLines(_, _, _)
ProcessLines(provider, st, lines) ==
    IF lines = <<>> THEN st
    ELSE ProcessLines(provider, ProcessLine(provider, st, Head(lines)), Tail(lines))

\* one iteration of `while (true)` after a read that returned a chunk
ProcessChunk(provider, st, chunk) ==
    ProcessLines(provider, st, SplitLines(chunk))

\* FinishStream with onDone invoked a second time
FinishStreamTwice(provider, st) ==
    LET finalOutput == Trim(st.fullContent)
        done == Callback("onDone", finalOutput, <<>>)
    IN  [st EXCEPT !.log = @ \o <<done, done>>]

\* the statements after the loop: the onDone callback and the returned text
FinishStream(provider, st) ==
    LET sep == InlineThink(st.fullContent, st.fullReasoning)
        finalOutput == IF provider = "llamacpp"
                       THEN Trim(StripThinkTags(sep.output))
                       ELSE Trim(st.fullContent)
        finalThinking == CASE provider = "llamacpp" -> Trim(StripThinkTags(sep.thinking))
                           [] provider = "claude" -> st.fullReasoning
                           [] OTHER -> <<>>
    IN  [st EXCEPT !.log = Append(@, Callback("onDone", finalOutput, finalThinking))]

\* what translateStream returns after FinishStream
FinalText(st) == st.log[Len(st.log)].arg

(***************************************************************************)
(* One adapter call: translateStream (mode "stream") or translate (mode    *)
(* "once"), suspended at its awaits                                        *)
(***************************************************************************)

Providers == {"openai", "claude", "gemini", "ollama", "llamacpp", "openai-compatible"}

\* `!value` for a configuration string: undefined and '' are falsy
Falsy(v) == v \in {"undefined", ""}

NoError == [name |-> "none", message |-> <<>>]
Err(name, message) == [name |-> name, message |-> message]

\* the message of `throw new Error('... API Key가 설정되지 않았습니다.')` and of
\* `throw new Error('OpenAI 호환 API의 Base URL이 설정되지 않았습니다.')`
MissingConfigMessage(provider) ==
    IF provider = "openai-compatible" THEN <<"Base URL is not set: ", provider>>
    ELSE <<"API Key is not set: ", provider>>

\* the message built from response.status alone
StatusMessage(provider, status) == <<"API error: ", provider, status>>

\* pc: "idle" no call; "fetch" awaiting fetch(); "errbody" awaiting
\* response.json() of a non-ok response; "read" awaiting reader.read();
\* "body" awaiting response.json() of an ok response; "resolved";
\* "rejected".  config is this.config; fetches counts the network requests
\* issued.
NoConfig == [apiKey |-> "undefined", baseUrl |-> "undefined"]

IdleCall == [pc |-> "idle", provider |-> "none", mode |-> "none",
             config |-> NoConfig, httpStatus |-> "none", payload |-> <<>>, pos |-> 0,
             st |-> NewStream, error |-> NoError, result |-> <<>>,
             fetches |-> 0]

\* throw inside `try { ... } catch (error) { onError(error); throw error; }`
\* of translateStream; translate has no try block and no callbacks
Throw(c, e) ==
    [c EXCEPT !.pc = "rejected", !.error = e,
              !.st.log = IF c.mode = "stream"
                         THEN Append(@, Callback("onError", e, <<>>))
                         ELSE @]

\* the configuration check that precedes the try block
RequiresApiKey(provider) == provider \in {"openai", "claude", "gemini"}
RequiresBaseUrl(provider) == provider = "openai-compatible"

ConfigMissing(provider, config) ==
    \/ RequiresApiKey(provider) /\ Falsy(config.apiKey)
    \/ RequiresBaseUrl(provider) /\ Falsy(config.baseUrl)

\* StartCall without the configuration check: the request is always issued
StartCallUnchecked(provider, mode, config) ==
    [IdleCall EXCEPT !.provider = provider, !.mode = mode, !.config = config,
                     !.pc = "fetch", !.fetches = 1]

\* translate / translateStream from its first statement to its first await
StartCall(provider, mode, config) ==
    LET c == [IdleCall EXCEPT !.provider = provider, !.mode = mode,
                              !.config = config]
    IN  IF ConfigMissing(provider, config)
        THEN [c EXCEPT !.pc = "rejected",
                       !.error = Err("Error", MissingConfigMessage(provider))]
        ELSE [c EXCEPT !.pc = "fetch", !.fetches = 1]

\* fetch() rejects: no connection
FetchFailed(c) == Throw(c, Err("TypeError", <<"Failed to fetch">>))

\* adapters that read the body of a non-ok response
ParsesErrorBody(provider) ==
    provider \in {"openai", "claude", "gemini", "openai-compatible"}

\* fetch() resolves with a response: `if (!response.ok)` and what follows
FetchResolved(c, status, body) ==
    LET got == [c EXCEPT !.httpStatus = status, !.payload = body]
    IN  IF status # "200"
        THEN IF ParsesErrorBody(c.provider)
             THEN [got EXCEPT !.pc = "errbody"]
             ELSE Throw(got, Err("Error", StatusMessage(c.provider, status)))
        ELSE [got EXCEPT !.pc = IF c.mode = "stream" THEN "read" ELSE "body"]

\* const error = await response.json().catch(() => ({}));
\* throw new Error(error.error?.message || `... ${response.status}`);
ErrorBodyRead(c) ==
    LET error == JSONParse(c.payload)
        message == Field(error, KErrMsg)
    IN  IF error.ok /\ error.isNull
        THEN Throw(c, Err("TypeError", <<"Cannot read properties of null">>))
        ELSE IF error.ok /\ message # <<>>
        THEN Throw(c, Err("Error", message))
        ELSE Throw(c, Err("Error", StatusMessage(c.provider, c.httpStatus)))

\* reader.read() resolves with the next n units of the body
ChunkRead(c, n) ==
    [c EXCEPT !.pos = @ + n,
              !.st = ProcessChunk(c.provider, @, SubSeq(c.payload, c.pos + 1, c.pos + n))]

\* reader.read() resolves with done
StreamEnded(c) ==
    LET fin == FinishStream(c.provider, c.st)
    IN  [c EXCEPT !.pc = "resolved", !.st = fin, !.result = FinalText(fin)]

\* reader.read() rejects: the connection broke
ReadFailed(c) == Throw(c, Err("TypeError", <<"network error">>))

(***************************************************************************)
(* LlamaCppProvider.separateThinking (the one-shot extractor)              *)
(***************************************************************************)

ThinkingOpen   == <<"<", "t", "h", "i", "n", "k", "i", "n", "g", ">">>
ThinkingClose  == <<"<", "/", "t", "h", "i", "n", "k", "i", "n", "g", ">">>
ReasoningOpen  == <<"<", "r", "e", "a", "s", "o", "n", "i", "n", "g", ">">>
ReasoningClose == <<"<", "/", "r", "e", "a", "s", "o", "n", "i", "n", "g", ">">>

\* case folding of the `i` flag, on the letters a tag is made of
UpperLetters == {"T", "H", "I", "N", "K", "G", "R", "E", "A", "S", "O"}
LowerChar(ch) ==
    CASE ch = "T" -> "t" [] ch = "H" -> "h" [] ch = "I" -> "i" [] ch = "N" -> "n"
      [] ch = "K" -> "k" [] ch = "G" -> "g" [] ch = "R" -> "r" [] ch = "E" -> "e"
      [] ch = "A" -> "a" [] ch = "S" -> "s" [] ch = "O" -> "o" [] OTHER -> ch
Lower(s) == [i \in 1..Len(s) |-> LowerChar(s[i])]

\* index of the first case-insensitive occurrence of the lower-case p
IndexOfCI(s, p) == IndexOf(Lower(s), p)

\* s.lastIndexOf(p), case-sensitive
LastIndexOf(s, p) ==
    LET hits == {i \in 0..(Len(s) - Len(p)) :
                    s[i + 1] = p[1] /\ SubSeq(s, i + 1, i + Len(p)) = p}
    IN  IF hits = {} THEN -1 ELSE CHOOSE i \in hits : \A j \in hits : i >= j

\* the matches of /<open>[\s\S]*?<\/close>/gi in s, left to right:
\* out is s without the matches, inner the concatenated captures,
\* whole the concatenated matches
RECURSIVE MatchPairs(_, _, _)
MatchPairs(s, open, close) ==
    LET i == IndexOfCI(s, open)
        rest == Slice(s, i + Len(open))
        j == IndexOfCI(rest, close)
        more == MatchPairs(Slice(rest, j + Len(close)), open, close)
    IN  IF i = -1 \/ j = -1
        THEN [out |-> s, inner |-> <<>>, whole |-> <<>>]
        ELSE [out |-> SubSeq(s, 1, i) \o more.out,
              inner |-> SubSeq(rest, 1, j) \o more.inner,
              whole |-> SubSeq(s, i + 1, i + Len(open) + j + Len(close)) \o more.whole]

\* s starts with the lower-case p, in any letter case
StartsWithCI(s, p) == Len(s) >= Len(p) /\ Lower(SubSeq(s, 1, Len(p))) = p

\* s.replace(/<\/?tag>/gi, '')
RECURSIVE StripTagsCI(_, _, _)
StripTagsCI(s, open, close) ==
    IF s = <<>> THEN <<>>
    ELSE IF Head(s) # "<" THEN <<Head(s)>> \o StripTagsCI(Tail(s), open, close)
    ELSE IF StartsWithCI(s, open) THEN StripTagsCI(Slice(s, Len(open)), open, close)
    ELSE IF StartsWithCI(s, close) THEN StripTagsCI(Slice(s, Len(close)), open, close)
    ELSE <<Head(s)>> \o StripTagsCI(Tail(s), open, close)

\* separateThinking collecting match[0], the tags included, instead of match[1]
separateThinkingWholeMatch(text) ==
    LET complete == MatchPairs(text, ThinkOpen, ThinkClose)
        openIdx == LastIndexOf(complete.out, ThinkOpen)
        closeIdx == LastIndexOf(complete.out, ThinkClose)
        unclosed == openIdx # -1 /\ (closeIdx = -1 \/ closeIdx < openIdx)
        thinking1 == IF unclosed
                     THEN complete.whole \o SubstringFrom(complete.out, openIdx + 7)
                     ELSE complete.whole
        output1 == IF unclosed THEN Substring(complete.out, 0, openIdx) ELSE complete.out
        output2 == Trim(StripTagsCI(output1, ThinkOpen, ThinkClose))
        pairs3 == MatchPairs(output2, ThinkingOpen, ThinkingClose)
        thinking3 == thinking1 \o StripTagsCI(pairs3.whole, ThinkingOpen, ThinkingClose)
        pairs4 == MatchPairs(pairs3.out, ReasoningOpen, ReasoningClose)
        thinking4 == thinking3 \o StripTagsCI(pairs4.whole, ReasoningOpen, ReasoningClose)
        output5 == Trim(StripTagsCI(StripTagsCI(pairs4.out, ThinkingOpen, ThinkingClose),
                                    ReasoningOpen, ReasoningClose))
    IN  [thinking |-> Trim(thinking4), output |-> output5]

\* separateThinking(text)
separateThinking(text) ==
    LET complete == MatchPairs(text, ThinkOpen, ThinkClose)
        openIdx == LastIndexOf(complete.out, ThinkOpen)
        closeIdx == LastIndexOf(complete.out, ThinkClose)
        unclosed == openIdx # -1 /\ (closeIdx = -1 \/ closeIdx < openIdx)
        thinking1 == IF unclosed
                     THEN complete.inner \o SubstringFrom(complete.out, openIdx + 7)
                     ELSE complete.inner
        output1 == IF unclosed THEN Substring(complete.out, 0, openIdx) ELSE complete.out
        output2 == Trim(StripTagsCI(output1, ThinkOpen, ThinkClose))
        pairs3 == MatchPairs(output2, ThinkingOpen, ThinkingClose)
        thinking3 == thinking1 \o StripTagsCI(pairs3.whole, ThinkingOpen, ThinkingClose)
        pairs4 == MatchPairs(pairs3.out, ReasoningOpen, ReasoningClose)
        thinking4 == thinking3 \o StripTagsCI(pairs4.whole, ReasoningOpen, ReasoningClose)
        output5 == Trim(StripTagsCI(StripTagsCI(pairs4.out, ThinkingOpen, ThinkingClose),
                                    ReasoningOpen, ReasoningClose))
    IN  [thinking |-> Trim(thinking4), output |-> output5]

\* filterThinkingBlocks(text)
filterThinkingBlocks(text) == separateThinking(text).output

(***************************************************************************)
(* The end of translate (mode "once")                                      *)
(***************************************************************************)

\* the path translate reads in the response body
OnceKey(provider) ==
    CASE provider \in {"openai", "llamacpp", "openai-compatible"} -> KMessage
      [] provider = "claude" -> KClaudeText
      [] provider = "gemini" -> KGemini
      [] provider = "ollama" -> KOllama

\* const data = await response.json(); return <path>.trim();
BodyRead(c) ==
    LET data == JSONParse(c.payload)
        key == OnceKey(c.provider)
    IN  IF ~data.ok
        THEN Throw(c, Err("SyntaxError", <<"Unexpected token">>))
        ELSE IF data.isNull \/ key \notin DOMAIN data.strs
        THEN Throw(c, Err("TypeError", <<"Cannot read properties of undefined">>))
        ELSE [c EXCEPT !.pc = "resolved",
                       !.result = IF c.provider = "llamacpp"
                                  THEN Trim(filterThinkingBlocks(data.strs[key]))
                                  ELSE Trim(data.strs[key])]

(***************************************************************************)
(* fetchModels: the static method of every adapter and of the factory      *)
(***************************************************************************)

\* the provider types fetchModels may be asked for: the six of the factory
\* and one the factory does not know
ModelProviders == Providers \cup {"translategemma"}

\* one option of the model list
Option(value, label) == [value |-> value, label |-> label]

\* getDefaultModels() of each adapter, ProviderFactory.getDefaultModels for
\* the rest
getDefaultModels(provider) ==
    CASE provider = "openai" ->
            <<Option("gpt-4o", "gpt-4o"), Option("gpt-4o-mini", "gpt-4o-mini"),
              Option("gpt-4-turbo", "gpt-4-turbo"), Option("gpt-4", "gpt-4"),
              Option("gpt-3.5-turbo", "gpt-3.5-turbo")>>
      [] provider = "claude" ->
            <<Option("claude-opus-4-20250514", "Claude Opus 4"),
              Option("claude-sonnet-4-20250514", "Claude Sonnet 4"),
              Option("claude-opus-4-1-20250805", "Claude Opus 4.1"),
              Option("claude-sonnet-4-5-20250929", "Claude Sonnet 4.5"),
              Option("claude-haiku-4-5-20251015", "Claude Haiku 4.5"),
              Option("claude-opus-4-5-20251124", "Claude Opus 4.5"),
              Option("claude-3-7-sonnet-20250219", "Claude 3.7 Sonnet"),
              Option("claude-3-5-sonnet-20241022", "Claude 3.5 Sonnet"),
              Option("claude-3-5-haiku-20241022", "Claude 3.5 Haiku")>>
      [] provider = "gemini" ->
            <<Option("gemini-3.0-flash", "Gemini 3.0 Flash"),
              Option("gemini-3.0-pro", "Gemini 3.0 Pro"),
              Option("gemini-2.5-pro", "Gemini 2.5 Pro"),
              Option("gemini-2.5-flash", "Gemini 2.5 Flash"),
              Option("gemini-2.5-flash-lite-preview-06-17", "Gemini 2.5 Flash Lite"),
              Option("gemini-2.0-flash", "Gemini 2.0 Flash"),
              Option("gemini-1.5-pro", "Gemini 1.5 Pro"),
              Option("gemini-1.5-flash", "Gemini 1.5 Flash")>>
      [] provider = "ollama" ->
            <<Option("llama3.2", "llama3.2"), Option("llama3.1", "llama3.1"),
              Option("llama3", "llama3"), Option("mistral", "mistral"),
              Option("mixtral", "mixtral"), Option("qwen2.5", "qwen2.5"),
              Option("gemma2", "gemma2"), Option("phi3", "phi3")>>
      [] provider = "llamacpp" -> <<Option("default", "loaded model")>>
      [] provider = "openai-compatible" -> <<Option("default", "default model")>>
      [] OTHER -> <<>>

\* One entry of the list a models endpoint returns.  name is its `id`
\* (OpenAI, llama.cpp, OpenAI-compatible) or its `name` (Gemini, Ollama),
\* "undefined" when the property is absent; generate tells whether
\* supportedGenerationMethods includes 'generateContent'.
Entry(name, displayName, generate) ==
    [name |-> name, displayName |-> displayName, generate |-> generate]

\* the position of a string in localeCompare order, among the strings used
Collation == <<"Gemini Pro", "gemini-pro", "gpt-4", "gpt-4o", "gpt-4o-audio-preview",
               "llama3", "models/gemini-pro", "undefined">>
Rank(s) == CHOOSE i \in 1..Len(Collation) : Collation[i] = s

\* m.id.includes('gpt') && !m.id.includes('instruct') && !...('realtime') &&
\* !...('audio')
IsChatModel(id) == id \in {"gpt-4", "gpt-4o"}

\* name.replace('models/', '')
StripModelsPrefix(name) == IF name = "models/gemini-pro" THEN "gemini-pro" ELSE name

RECURSIVE SelectSeqBy(_, _)
SelectSeqBy(s, keep) ==
    IF s = <<>> THEN <<>>
    ELSE (IF Head(s) \in keep THEN <<Head(s)>> ELSE <<>>) \o SelectSeqBy(Tail(s), keep)

\* insertion of x into a list sorted by label (descending when desc)
RECURSIVE InsertByLabel(_, _, _)
InsertByLabel(x, s, desc) ==
    IF s = <<>> THEN <<x>>
    ELSE IF (IF desc THEN Rank(x.label) > Rank(Head(s).label)
                     ELSE Rank(x.label) < Rank(Head(s).label))
    THEN <<x>> \o s
    ELSE <<Head(s)>> \o InsertByLabel(x, Tail(s), desc)

\* array.sort((a, b) => a.label.localeCompare(b.label)), stable
RECURSIVE SortByLabel(_, _)
SortByLabel(s, desc) ==
    IF s = <<>> THEN <<>>
    ELSE InsertByLabel(s[Len(s)], SortByLabel(SubSeq(s, 1, Len(s) - 1), desc), desc)

\* The value of `await response.json()` on a models endpoint: "invalid"
\* (the promise rejects with a SyntaxError), "null", or an object whose
\* `data` and `models` properties are a list of entries or absent.
ModelsBody(json, data, models) == [json |-> json, data |-> data, models |-> models]
Absent == [present |-> FALSE, items |-> <<>>]
List(items) == [present |-> TRUE, items |-> items]

\* how the statements after response.json() end: a TypeError, or a list
Threw == [threw |-> TRUE, models |-> <<>>]
Listed(models) == [threw |-> FALSE, models |-> models]

\* The statements between `const data = await response.json()` and the
\* return, per adapter: the set of values `models` may end with, Threw for
\* a TypeError raised on the way.  The comparator of sort() is called only
\* for two or more elements and the engine chooses which element is `a`,
\* so a list with an undefined label may sort or throw.
ListedModels(provider, body) ==
    LET prop == IF provider \in {"gemini", "ollama"} THEN body.models ELSE body.data
        list == prop.items
        named == \A i \in 1..Len(list) : list[i].name # "undefined"
        plain == [i \in 1..Len(list) |-> Option(list[i].name, list[i].name)]
        sorted(s, desc) ==
            IF Len(s) >= 2 /\ \E i \in 1..Len(s) : s[i].label = "undefined"
            THEN {Threw, Listed(SortByLabel(s, desc))}
            ELSE {Listed(SortByLabel(s, desc))}
    IN  IF body.json # "object" \/ ~prop.present THEN {Threw}
        ELSE CASE provider = "openai" ->
                    IF ~named THEN {Threw}
                    ELSE {Listed(SortByLabel(SelectSeqBy(plain,
                              {o \in {plain[i] : i \in 1..Len(plain)} : IsChatModel(o.value)}),
                              TRUE))}
               [] provider = "gemini" ->
                    LET usable == SelectSeqBy(list,
                                      {e \in {list[i] : i \in 1..Len(list)} : e.generate})
                    IN  IF \E i \in 1..Len(usable) : usable[i].name = "undefined"
                        THEN {Threw}
                        ELSE sorted([i \in 1..Len(usable) |->
                                        Option(StripModelsPrefix(usable[i].name),
                                               IF usable[i].displayName # "undefined"
                                               THEN usable[i].displayName
                                               ELSE StripModelsPrefix(usable[i].name))],
                                    FALSE)
               [] provider = "llamacpp" -> {Listed(plain)}
               [] OTHER -> sorted(plain, FALSE)

\* pc: "idle"; "fetch" awaiting fetch(); "body" awaiting response.json();
\* "resolved" with result the returned list; "rejected"
IdleModels == [pc |-> "idle", provider |-> "none", config |-> NoConfig,
               httpStatus |-> "none", body |-> ModelsBody("none", Absent, Absent),
               result |-> <<>>, fetches |-> 0]

\* return this.getDefaultModels()
ReturnDefaults(m) == [m EXCEPT !.pc = "resolved", !.result = getDefaultModels(m.provider)]

\* ProviderFactory.fetchModels(providerType, config) up to the first await
StartFetchModels(provider, config) ==
    LET m == [IdleModels EXCEPT !.provider = provider, !.config = config]
    IN  IF provider \notin Providers THEN [m EXCEPT !.pc = "resolved", !.result = <<>>]
        ELSE IF provider = "claude" THEN ReturnDefaults(m)
        ELSE IF provider \in {"openai", "gemini"} /\ Falsy(config.apiKey) THEN ReturnDefaults(m)
        ELSE IF provider = "openai-compatible" /\ Falsy(config.baseUrl) THEN ReturnDefaults(m)
        ELSE [m EXCEPT !.pc = "fetch", !.fetches = 1]

\* ModelsFetchFailed without the try block: the rejection propagates
ModelsFetchFailedUncaught(m) == [m EXCEPT !.pc = "rejected"]

\* fetch() rejects: the catch block returns the defaults
ModelsFetchFailed(m) == ReturnDefaults(m)

\* fetch() resolves: `if (!response.ok) return this.getDefaultModels();`
ModelsFetchResolved(m, status, body) ==
    LET got == [m EXCEPT !.httpStatus = status, !.body = body]
    IN  IF status # "200" THEN ReturnDefaults(got) ELSE [got EXCEPT !.pc = "body"]

\* response.json() settles and the list is built; listed is one element of
\* ListedModels
ModelsBodyRead(m, listed) ==
    IF listed.threw \/ Len(listed.models) = 0 THEN ReturnDefaults(m)
    ELSE [m EXCEPT !.pc = "resolved", !.result = listed.models]

(***************************************************************************)
(* State                                                                   *)
(***************************************************************************)

\* app.js registers two DOMContentLoaded handlers (lines 6 and 1102); each
\* has its own closure state and its own listeners on the same elements.
Handlers == {"A", "B"}

VARIABLES
    direct,           \* an adapter method called directly with recording callbacks
    call,             \* per handler: the adapter call its translate() awaits, or awaited last
    isTranslating,    \* per handler: `let isTranslating`
    abortController,  \* handler A: `let abortController`: "null" or "set"
    signalAborted,    \* handler A: signal.aborted of the controller of the last request
    ui                \* the DOM elements both handlers write

vars == <<direct, call, isTranslating, abortController, signalAborted, ui>>

orchVars == <<call, isTranslating, abortController, signalAborted, ui>>

\* targetText.textContent; translationStatus.textContent: "" | "streaming" |
\* "translating" | "cancelled"; toast: the text of the last showToast;
\* reasoningText.textContent; btnDisabled: translateBtn.disabled
InitUi == [targetText |-> <<>>, translationStatus |-> "", toast |-> <<>>,
           reasoningText |-> <<>>, btnDisabled |-> FALSE]

OrchInit ==
    /\ call = [h \in Handlers |-> IdleCall]
    /\ isTranslating = [h \in Handlers |-> FALSE]
    /\ abortController = "null"
    /\ signalAborted = FALSE
    /\ ui = InitUi

(***************************************************************************)
(* Wire bodies the environment may send                                    *)
(***************************************************************************)

Obj(items) == <<"{">> \o items \o <<"}">>
SSE(data) == DataPrefix \o data \o <<"\n">>
NDJ(data) == data \o <<"\n">>

\* configurations: the fields an adapter checks
Configs == [apiKey : {"undefined", "", "sk"}, baseUrl : {"undefined", "", "http://h"}]

HttpStatuses == {"200", "401"}

ErrorBodies ==
    { Obj(<<KErrMsg, "b", "a", "d", " ", "k", "e", "y">>),
      Obj(<<>>),
      <<"<", "h", "t", "m", "l", ">">>,
      <<"null">> }

\* streamed bodies, per adapter
OpenAIStreams ==
    { SSE(Obj(<<KContent, "a">>)) \o SSE(Obj(<<KContent, "b">>)) \o SSE(DoneSentinel),
      SSE(Obj(<<KContent, " ", "a">>)) \o SSE(DoneSentinel) \o SSE(Obj(<<KContent, "b", " ">>)),
      SSE(<<"{", KContent, "a">>) \o <<"\n">> \o SSE(Obj(<<KContent, "b">>)),
      SSE(Obj(<<KContent>> \o ThinkOpen \o <<"r">> \o ThinkClose \o <<"a">>)) }

ClaudeStreams ==
    { SSE(Obj(<<EBlockStart, EBlockThinking>>))
        \o SSE(Obj(<<EBlockDelta, EThinkingDelta, KThinking, "r">>))
        \o SSE(Obj(<<EBlockStart, EBlockText>>))
        \o SSE(Obj(<<EBlockDelta, ETextDelta, KText, "a">>)),
      SSE(Obj(<<EBlockDelta, ETextDelta, KText, "a">>)) \o SSE(<<>>)
        \o SSE(Obj(<<EBlockDelta, ETextDelta, KText, "b">>)) \o SSE(DoneSentinel),
      SSE(Obj(<<EBlockStart, EBlockText>>))
        \o SSE(Obj(<<EBlockDelta, EThinkingDelta, KThinking, "r">>))
        \o SSE(Obj(<<EBlockStart, EBlockThinking>>))
        \o SSE(Obj(<<EBlockDelta, ETextDelta, KText, "a">>)) }

GeminiStreams ==
    { SSE(Obj(<<KGemini, "a">>)) \o <<"\n">> \o SSE(Obj(<<KGemini, "b">>)),
      SSE(Obj(<<KGemini, "a">>)) \o SSE(<<"null">>) }

OllamaStreams ==
    { NDJ(Obj(<<KOllama, "a">>)) \o NDJ(Obj(<<KOllama, "b">>)) \o NDJ(Obj(<<>>)),
      NDJ(Obj(<<KOllama, "a">>)) \o NDJ(<<"{", KOllama>>),
      NDJ(<<"{", KOllama, "a">>) \o NDJ(Obj(<<KOllama, "b">>)) }

LlamaCppStreams ==
    { SSE(Obj(<<KContent, "a", " ">>)) \o SSE(Obj(<<KContent>> \o ThinkOpen \o <<"r">>))
        \o SSE(Obj(<<KContent>> \o ThinkClose \o <<"b">>)) \o SSE(DoneSentinel),
      SSE(Obj(<<KReasoning, "r">>)) \o SSE(Obj(<<KContent, "a">>)) \o SSE(DoneSentinel),
      SSE(Obj(<<KContent, "<", "t", "h">>)) \o SSE(Obj(<<KContent, "i", "n", "k", ">", "r">>)),
      SSE(Obj(<<KContent>> \o ThinkingOpen \o <<"r">>)),
      SSE(Obj(<<KContent>> \o ThinkOpen \o <<"r">> \o ThinkClose \o <<"a">>
                           \o ThinkOpen \o <<"s">> \o ThinkClose \o <<"b">>)),
      SSE(Obj(<<KContent>> \o ThinkOpen \o <<"r", "<", "/">>))
        \o SSE(Obj(<<KContent, "t", "h", "i", "n", "k", ">">>)),
      SSE(Obj(<<KContent, "r">> \o ThinkClose \o <<"a">>)) }

StreamBodies(provider) ==
    CASE provider \in {"openai", "openai-compatible"} -> OpenAIStreams
      [] provider = "claude" -> ClaudeStreams
      [] provider = "gemini" -> GeminiStreams
      [] provider = "ollama" -> OllamaStreams
      [] provider = "llamacpp" -> LlamaCppStreams

\* bodies of a non-streaming response
OnceBodies(provider) ==
    { Obj(<<OnceKey(provider), " ", "a">>),
      Obj(<<OnceKey(provider), "a">> \o ThinkOpen \o <<"r">> \o ThinkClose),
      Obj(<<>>),
      <<"<", "h", "t", "m", "l", ">">> }

\* the responses fetch() may resolve with for a call
Responses(c) ==
    [status : {"200"},
     body : IF c.mode = "stream" THEN StreamBodies(c.provider) ELSE OnceBodies(c.provider)]
    \cup [status : HttpStatuses \ {"200"}, body : ErrorBodies]

(***************************************************************************)
(* An adapter method called directly                                       *)
(***************************************************************************)

StreamInit ==
    /\ direct = IdleCall
    /\ OrchInit

\* provider.translateStream(...) or provider.translate(...), up to its first await
DCall ==
    /\ direct.pc = "idle"
    /\ \E provider \in Providers, mode \in {"stream", "once"}, config \in Configs :
          direct' = StartCall(provider, mode, config)
    /\ UNCHANGED orchVars

DFetchRejects ==
    /\ direct.pc = "fetch"
    /\ direct' = FetchFailed(direct)
    /\ UNCHANGED orchVars

DFetchResolves ==
    /\ direct.pc = "fetch"
    /\ \E r \in Responses(direct) : direct' = FetchResolved(direct, r.status, r.body)
    /\ UNCHANGED orchVars

DErrorBodyArrives ==
    /\ direct.pc = "errbody"
    /\ direct' = ErrorBodyRead(direct)
    /\ UNCHANGED orchVars

DChunkArrives ==
    /\ direct.pc = "read"
    /\ \E n \in 1..(Len(direct.payload) - direct.pos) : direct' = ChunkRead(direct, n)
    /\ UNCHANGED orchVars

DStreamEnds ==
    /\ direct.pc = "read"
    /\ direct.pos = Len(direct.payload)
    /\ direct' = StreamEnded(direct)
    /\ UNCHANGED orchVars

DReadFails ==
    /\ direct.pc = "read"
    /\ direct' = ReadFailed(direct)
    /\ UNCHANGED orchVars

DBodyArrives ==
    /\ direct.pc = "body"
    /\ direct' = BodyRead(direct)
    /\ UNCHANGED orchVars

StreamNext ==
    \/ DCall
    \/ DFetchRejects
    \/ DFetchResolves
    \/ DErrorBodyArrives
    \/ DChunkArrives
    \/ DStreamEnds
    \/ DReadFails
    \/ DBodyArrives

StreamSpec == StreamInit /\ [][StreamNext]_vars

(***************************************************************************)
(* Properties of one adapter call (StreamSpec)                             *)
(***************************************************************************)

IsPrefix(a, b) == Len(a) <= Len(b) /\ SubSeq(b, 1, Len(a)) = a

\* the callbacks of one name in a log, in order
RECURSIVE Only(_, _)
Only(log, names) ==
    IF log = <<>> THEN <<>>
    ELSE IF Head(log).cb \in names THEN <<Head(log)>> \o Only(Tail(log), names)
    ELSE Only(Tail(log), names)

\* the stream record after the whole body arrived as a single chunk
Unsplit(c) == FinishStream(c.provider, ProcessChunk(c.provider, NewStream, c.payload))

DirectStreamDone == direct.mode = "stream" /\ direct.pc = "resolved"

\* C1: chunk-boundary invariance: when a streamed call has completed, its
\* callbacks and its final text are those of the same body arriving as one
\* chunk, however the body was split into chunks.
C1_ChunkBoundaryInvariance ==
    DirectStreamDone =>
        /\ direct.st.log = Unsplit(direct).log
        /\ direct.result = FinalText(Unsplit(direct))

\* C2: monotonicity of visible text: of any two onContent calls of one
\* stream, the argument of the earlier is a prefix of the argument of the
\* later.
C2_ContentMonotone ==
    LET shown == Only(direct.st.log, {"onContent"})
    IN  \A i, j \in 1..Len(shown) : i <= j => IsPrefix(shown[i].arg, shown[j].arg)

\* C5: every error path of translateStream invokes onError exactly once,
\* as its last callback, and the call fails.
C5_ErrorPathsCallOnErrorOnce ==
    (direct.mode = "stream" /\ direct.pc = "rejected") =>
        /\ Len(Only(direct.st.log, {"onError"})) = 1
        /\ direct.st.log[Len(direct.st.log)].cb = "onError"

\* C6: when the transport signals end-of-stream, onDone is invoked exactly
\* once, with the final visible text, and it is the last callback of the
\* call: no onContent, onReasoning, onDone or onError follows it.
C6_DoneOnceAndLast ==
    /\ \A i \in 1..Len(direct.st.log) :
          direct.st.log[i].cb = "onDone" => i = Len(direct.st.log) /\ DirectStreamDone
    /\ DirectStreamDone =>
          /\ Len(Only(direct.st.log, {"onDone"})) = 1
          /\ direct.st.log[Len(direct.st.log)].arg = direct.result

C6_Witness ==
    /\ DirectStreamDone
    /\ Len(direct.st.log) >= 3
    /\ direct.st.log[1].cb = "onContent"

\* the sentinel line has been handed to the read loop
SentinelDelivered(c) ==
    IndexOf(SubSeq(c.payload, 1, c.pos), SSE(DoneSentinel)) # -1

\* C7: a [DONE] line produces no content or reasoning callback, and once it
\* has been read no later frame produces an onContent or onReasoning.
C7_NothingAfterSentinel ==
    [][(direct.pc = "read" /\ SentinelDelivered(direct)) =>
          Only(direct'.st.log, {"onContent", "onReasoning"})
              = Only(direct.st.log, {"onContent", "onReasoning"})]_vars

\* C9: fail-fast configuration check: a call on an adapter that requires an
\* API key or a base URL, made without it (absent or empty), has failed with
\* the missing-configuration error and has issued no network request.
C9_FailFastConfig ==
    (direct.pc # "idle" /\ ConfigMissing(direct.provider, direct.config)) =>
        /\ direct.pc = "rejected"
        /\ direct.error = Err("Error", MissingConfigMessage(direct.provider))
        /\ direct.fetches = 0

C9_Witness ==
    /\ direct.provider = "openai"
    /\ direct.config.apiKey = ""
    /\ direct.pc = "rejected"
    /\ direct.fetches = 0

\* the call failed on a non-2xx response
FailedOnStatus(c) == c.pc = "rejected" /\ c.httpStatus \notin {"none", "200"}

\* C10: for every adapter, a call that failed on a non-2xx response whose
\* body parses to a structured error carrying a message fails with that
\* message, not with the generic status message.
C10_EveryAdapterSurfacesBodyMessage ==
    FailedOnStatus(direct) =>
        LET body == JSONParse(direct.payload)
        IN  (body.ok /\ Field(body, KErrMsg) # <<>>) =>
                direct.error.message = Field(body, KErrMsg)

(***************************************************************************)
(* fetchModels called directly (ModelsSpec)                                *)
(***************************************************************************)

\* lists a models endpoint may answer with
ModelLists ==
    { <<>>,
      <<Entry("gpt-4", "undefined", FALSE), Entry("gpt-4o-audio-preview", "undefined", FALSE),
        Entry("gpt-4o", "undefined", FALSE)>>,
      <<Entry("gpt-4o-audio-preview", "undefined", FALSE)>>,
      <<Entry("llama3", "undefined", TRUE), Entry("gpt-4", "undefined", TRUE)>>,
      <<Entry("models/gemini-pro", "Gemini Pro", TRUE), Entry("llama3", "undefined", FALSE)>>,
      <<Entry("undefined", "undefined", TRUE)>>,
      <<Entry("undefined", "undefined", TRUE), Entry("llama3", "undefined", TRUE)>> }

\* values of `await response.json()`
ModelsBodies ==
    { ModelsBody("invalid", Absent, Absent),
      ModelsBody("null", Absent, Absent),
      ModelsBody("object", Absent, Absent) }
    \cup { ModelsBody("object", List(l), Absent) : l \in ModelLists }
    \cup { ModelsBody("object", Absent, List(l)) : l \in ModelLists }

ModelsInit ==
    /\ direct = IdleModels
    /\ OrchInit

\* ProviderFactory.fetchModels(providerType, config)
MCall ==
    /\ direct.pc = "idle"
    /\ \E provider \in ModelProviders, config \in Configs :
          direct' = StartFetchModels(provider, config)
    /\ UNCHANGED orchVars

MFetchRejects ==
    /\ direct.pc = "fetch"
    /\ direct' = ModelsFetchFailed(direct)
    /\ UNCHANGED orchVars

MFetchResolves ==
    /\ direct.pc = "fetch"
    /\ \E status \in HttpStatuses, body \in ModelsBodies :
          direct' = ModelsFetchResolved(direct, status, body)
    /\ UNCHANGED orchVars

MBodyArrives ==
    /\ direct.pc = "body"
    /\ \E listed \in ListedModels(direct.provider, direct.body) :
          direct' = ModelsBodyRead(direct, listed)
    /\ UNCHANGED orchVars

ModelsNext ==
    \/ MCall
    \/ MFetchRejects
    \/ MFetchResolves
    \/ MBodyArrives

ModelsSpec == ModelsInit /\ [][ModelsNext]_vars

\* the list property the adapter reads in the body
ModelsProp(provider, body) ==
    IF provider \in {"gemini", "ollama"} THEN body.models ELSE body.data

\* C11: fetchModels of a registered provider never rejects, and it returns
\* the provider's static fallback list unless a request was issued, answered
\* 200 with a body that parses and holds the list, and a non-empty list of
\* models was built from it.
C11_FetchModelsNeverFails ==
    /\ direct.pc # "rejected"
    /\ (direct.pc = "resolved" /\ direct.provider \in Providers) =>
          \/ direct.result = getDefaultModels(direct.provider)
          \/ /\ direct.fetches = 1
             /\ direct.httpStatus = "200"
             /\ direct.body.json = "object"
             /\ ModelsProp(direct.provider, direct.body).present
             /\ direct.result # <<>>

C11_Witness ==
    /\ direct.pc = "resolved"
    /\ direct.provider = "openai"
    /\ direct.httpStatus = "200"
    /\ direct.body.json = "invalid"
    /\ direct.result = getDefaultModels("openai")

(***************************************************************************)
(* separateThinking applied to a complete text (ExtractSpec)               *)
(***************************************************************************)

\* the longest text, in pieces
MaxPieces == 4

\* the opening and closing markers of the three kinds
OpenMarkers == {ThinkOpen, ThinkingOpen, ReasoningOpen}
CloseMarkers == {ThinkClose, ThinkingClose, ReasoningClose}
Markers == OpenMarkers \cup CloseMarkers

\* pieces a text is made of: a letter, a blank, the two halves of a marker,
\* and the markers
Pieces == {<<"a">>, <<" ">>, <<"<", "t", "h", "i">>, <<"n", "k", ">">>} \cup Markers

\* the texts of at most n pieces
RECURSIVE TextsOf(_)
TextsOf(n) ==
    IF n = 0 THEN {<<>>}
    ELSE LET shorter == TextsOf(n - 1)
         IN  shorter \cup {t \o p : t \in shorter, p \in Pieces}

Texts == TextsOf(MaxPieces)

\* text: the argument of the last call; res: what it returned; again: what
\* a second call on res.output returned
NoExtract == [pc |-> "idle", text |-> <<>>,
              res |-> [thinking |-> <<>>, output |-> <<>>],
              again |-> [thinking |-> <<>>, output |-> <<>>]]

ExtractInit ==
    /\ direct = NoExtract
    /\ OrchInit

\* this.separateThinking(text), and once more on its output
Extract ==
    /\ direct.pc = "idle"
    /\ \E text \in Texts :
          \E res \in {separateThinking(text)} :
              direct' = [pc |-> "done", text |-> text, res |-> res,
                         again |-> separateThinking(res.output)]
    /\ UNCHANGED orchVars

ExtractNext == Extract

ExtractSpec == ExtractInit /\ [][ExtractNext]_vars

\* s holds a marker of one of the three kinds, in any letter case
HasMarker(s) == \E m \in Markers : IndexOfCI(s, m) # -1

\* the ways of reading text as P <think> R </think> S with no marker in P,
\* R and S: the pairs <<i, j>> of the 0-based positions of the two tags
ThinkSplits(text) ==
    LET at(tag) == {i \in 0..(Len(text) - Len(tag)) :
                       text[i + 1] = "<" /\ SubSeq(text, i + 1, i + Len(tag)) = tag}
    IN  {ij \in at(ThinkOpen) \X at(ThinkClose) :
            /\ ij[1] + 7 <= ij[2]
            /\ ~HasMarker(SubSeq(text, 1, ij[1]))
            /\ ~HasMarker(SubSeq(text, ij[1] + 8, ij[2]))
            /\ ~HasMarker(SubSeq(text, ij[2] + 9, Len(text)))}

\* C12 as stated: for text = P <think> R </think> S with no other marker,
\* the visible text is P S and the reasoning is R.
C12_RoundTrip ==
    direct.pc = "done" =>
        \A ij \in ThinkSplits(direct.text) :
            /\ direct.res.output = SubSeq(direct.text, 1, ij[1])
                                     \o SubSeq(direct.text, ij[2] + 9, Len(direct.text))
            /\ direct.res.thinking = SubSeq(direct.text, ij[1] + 8, ij[2])

\* C12 amended: for text = P <think> R </think> S with no other marker and
\* no marker in P S, the visible text is P S trimmed and the reasoning is R
\* trimmed.
C12_RoundTripTrimmed ==
    direct.pc = "done" =>
        \A ij \in ThinkSplits(direct.text) :
            LET PS == SubSeq(direct.text, 1, ij[1])
                        \o SubSeq(direct.text, ij[2] + 9, Len(direct.text))
            IN  ~HasMarker(PS) =>
                    /\ direct.res.output = Trim(PS)
                    /\ direct.res.thinking = Trim(SubSeq(direct.text, ij[1] + 8, ij[2]))

C12_Witness ==
    /\ direct.pc = "done"
    /\ direct.text = <<"a">> \o ThinkOpen \o <<"a">> \o ThinkClose
    /\ direct.res.output = <<"a">>
    /\ direct.res.thinking = <<"a">>

(***************************************************************************)
(* Properties of separateThinking (ExtractSpec)                            *)
(***************************************************************************)

\* C14: idempotence: separateThinking applied to its own visible output
\* returns that output unchanged and an empty reasoning text.
C14_Idempotent ==
    direct.pc = "done" =>
        /\ direct.again.output = direct.res.output
        /\ direct.again.thinking = <<>>

\* C16: unclosed opening tag of any kind: when the text is P <tag> R with
\* <tag> one of <think>, <thinking>, <reasoning> and no other marker, all of
\* R is reasoning and the visible text is P alone (both trimmed).
C16_UnclosedTagIsReasoning ==
    direct.pc = "done" =>
        \A open \in OpenMarkers :
            LET i == IndexOf(direct.text, open)
                P == SubSeq(direct.text, 1, i)
                R == SubSeq(direct.text, i + Len(open) + 1, Len(direct.text))
            IN  (i # -1 /\ ~HasMarker(P) /\ ~HasMarker(R)) =>
                    /\ direct.res.output = Trim(P)
                    /\ direct.res.thinking = Trim(R)

(***************************************************************************)
(* Properties of the inline-tag adapter while streaming (StreamSpec)       *)
(***************************************************************************)

\* the argument of the last callback of that name in the log, <<>> if none
LastArg(log, name) ==
    LET calls == Only(log, {name})
    IN  IF calls = <<>> THEN <<>> ELSE calls[Len(calls)].arg

\* a llama.cpp stream between two reads
LlamaStreaming == direct.provider = "llamacpp" /\ direct.mode = "stream" /\ direct.pc = "read"

\* C13: unclosed tag while streaming: when the text received so far is
\* P <think> R with no closing tag and no other marker, the visible text
\* last passed to onContent is exactly P, trailing blanks kept, and the
\* reasoning last passed to onReasoning is R.
C13_UnclosedTagWhileStreaming ==
    LlamaStreaming =>
        LET text == direct.st.fullContent
            i == IndexOf(text, ThinkOpen)
            P == SubSeq(text, 1, i)
            R == SubSeq(text, i + 8, Len(text))
        IN  (i # -1 /\ ~HasMarker(P) /\ ~HasMarker(R)) =>
                /\ LastArg(direct.st.log, "onContent") = P
                /\ R # <<>> => LastArg(direct.st.log, "onReasoning") = R

\* C15: no marker of the three kinds, opening or closing, is left in the
\* final visible text: the text the inline-tag adapter passes to onDone and
\* returns.
C15_NoMarkerSurvives ==
    (DirectStreamDone /\ direct.provider = "llamacpp") =>
        /\ ~HasMarker(direct.result)
        /\ ~HasMarker(LastArg(direct.st.log, "onDone"))

\* text without the complete pairs of each kind, <think> first, then
\* <thinking>, then <reasoning>, and the inner texts in that order
WithoutPairs(text) ==
    LET a == MatchPairs(text, ThinkOpen, ThinkClose)
        b == MatchPairs(a.out, ThinkingOpen, ThinkingClose)
        c == MatchPairs(b.out, ReasoningOpen, ReasoningClose)
    IN  [out |-> c.out, inner |-> a.inner \o b.inner \o c.inner]

\* C17: every complete pair of each kind is removed from the final visible
\* text, however many pairs the text holds, and the inner texts make up the
\* reasoning: for a received text that holds nothing but complete pairs
\* around plain text, the final visible text is what remains after removing
\* the pairs and the final reasoning is the inner texts (both trimmed).
C17_EveryPairRemoved ==
    (DirectStreamDone /\ direct.provider = "llamacpp" /\ direct.st.fullReasoning = <<>>) =>
        LET e == WithoutPairs(direct.st.fullContent)
            done == Only(direct.st.log, {"onDone"})[1]
        IN  (~HasMarker(e.out) /\ ~HasMarker(e.inner)) =>
                /\ direct.result = Trim(e.out)
                /\ done.arg = Trim(e.out)
                /\ done.arg2 = Trim(e.inner)

\* C18: whitespace is trimmed on the terminal output only: every string
\* passed to onContent is untrimmed.  When the text received so far holds at
\* most one <think> block (closed or not) and no other marker, the string
\* last passed to onContent is the text outside the block, blanks kept.
C18_OnContentUntrimmed ==
    (LlamaStreaming /\ Only(direct.st.log, {"onContent"}) # <<>>) =>
        LET text == direct.st.fullContent
            i == IndexOf(text, ThinkOpen)
            j == IndexOf(text, ThinkClose)
            visible == IF i = -1 THEN text
                       ELSE IF j = -1 THEN SubSeq(text, 1, i)
                       ELSE SubSeq(text, 1, i) \o SubSeq(text, j + 9, Len(text))
        IN  (~HasMarker(visible) /\ (j # -1 => (i # -1 /\ i < j))) =>
                LastArg(direct.st.log, "onContent") = visible

\* C19: reasoning is append-only: each string passed to onReasoning extends
\* the one passed before, and the reasoning passed to onDone extends the
\* last one passed to onReasoning; reasoning once shown is never retracted.
C19_ReasoningAppendOnly ==
    LET shown == Only(direct.st.log, {"onReasoning"})
        done == Only(direct.st.log, {"onDone"})
    IN  /\ \A k \in 1..(Len(shown) - 1) : IsPrefix(shown[k].arg, shown[k + 1].arg)
        /\ \A d \in 1..Len(done) :
               shown # <<>> => IsPrefix(shown[Len(shown)].arg, done[d].arg2)

\* a line the adapter hands to JSON.parse and that makes the try block throw
FailsToParse(provider, line) ==
    IF provider = "ollama"
    THEN Trim(line) # <<>> /\ (~JSONParse(line).ok \/ JSONParse(line).isNull)
    ELSE /\ StartsWith(line, DataPrefix)
         /\ Slice(line, 6) # DoneSentinel
         /\ (~JSONParse(Slice(line, 6)).ok \/ JSONParse(Slice(line, 6)).isNull)

\* the lines of a chunk that do not fail to parse, in order
ParsableLines(provider, lines) ==
    SelectSeq(lines, LAMBDA l : ~FailsToParse(provider, l))

\* C20: a line that fails JSON parsing produces no callback and no error, and
\* decoding goes on: after a chunk is read (OpenAI, OpenAI-compatible,
\* Ollama) the call is still reading, no error is recorded, and the
\* callbacks made are exactly those of the chunk's other lines, the ones
\* after the failing line included.
C20_BadLineSkipped ==
    [][ ( /\ direct.mode = "stream"
          /\ direct.pc = "read"
          /\ direct.provider \in {"openai", "openai-compatible", "ollama"}
          /\ direct'.pos > direct.pos )
        => LET chunk == SubSeq(direct.payload, direct.pos + 1, direct'.pos)
               lines == SplitLines(chunk)
           IN  /\ direct'.pc = "read"
               /\ direct'.error = direct.error
               /\ direct'.st = ProcessLines(direct.provider, direct.st,
                                            ParsableLines(direct.provider, lines))
      ]_vars

\* a stream whose first line failed to parse has ended, and the frame after
\* that line was delivered
C20_Witness ==
    /\ DirectStreamDone
    /\ direct.provider \in {"openai", "ollama"}
    /\ FailsToParse(direct.provider, SplitLines(direct.payload)[1])
    /\ direct.result = <<"b">>
    /\ Only(direct.st.log, {"onError"}) = <<>>

\* the arguments of successive calls grow, each a proper extension of the
\* one before, and the last one is the accumulator full
Accumulated(calls, full) ==
    /\ \A k \in 1..(Len(calls) - 1) :
           /\ IsPrefix(calls[k].arg, calls[k + 1].arg)
           /\ Len(calls[k].arg) < Len(calls[k + 1].arg)
    /\ IF calls = <<>> THEN full = <<>> ELSE calls[Len(calls)].arg = full

\* C21: for the adapters without inline-tag extraction (OpenAI, Claude,
\* Gemini, Ollama, OpenAI-compatible) the argument of every onContent and
\* onReasoning call is the concatenation of all content (reasoning) deltas
\* decoded so far in the stream, never the latest delta alone.
C21_CallbacksGetAccumulatedText ==
    (direct.mode = "stream" /\ direct.provider # "llamacpp") =>
        /\ Accumulated(Only(direct.st.log, {"onContent"}), direct.st.fullContent)
        /\ Accumulated(Only(direct.st.log, {"onReasoning"}), direct.st.fullReasoning)

\* two content deltas were decoded and the second call got both
C21_Witness ==
    /\ direct.mode = "stream"
    /\ direct.provider # "llamacpp"
    /\ LET calls == Only(direct.st.log, {"onContent"})
       IN  /\ Len(calls) >= 2
           /\ calls[1].arg = <<"a">>
           /\ calls[2].arg = <<"a", "b">>

(***************************************************************************)
(* The two translate() handlers of app.js                                  *)
(***************************************************************************)

\* the values of providerSelect: the base providers of updateProviderSelect
\* and one custom endpoint
CustomOptions == {"custom-1"}
ProviderOptions == {"openai", "claude", "gemini", "ollama", "llamacpp",
                    "translategemma"} \cup CustomOptions

\* provider.startsWith('custom-') ? 'openai-compatible' : provider
ProviderType(provider) ==
    IF provider \in CustomOptions THEN "openai-compatible" ELSE provider

\* what one trigger reads from the page: sourceText.value.trim() empty or
\* not, providerSelect.value, streamToggle.checked, getProviderConfig()
PageProviders == {"openai", "translategemma"}
PageConfigs == {[apiKey |-> "", baseUrl |-> ""], [apiKey |-> "sk", baseUrl |-> "http://h"]}
Inputs == [textEmpty : BOOLEAN, provider : PageProviders, stream : BOOLEAN,
           config : PageConfigs]

Snapshot == [call |-> call, isTranslating |-> isTranslating,
             abortController |-> abortController, signalAborted |-> signalAborted,
             ui |-> ui]

Aborted == <<"a", "b", "o", "r", "t", "e", "d">>

\* showToast(message)
ShowToast(S, message) == [S EXCEPT !.ui.toast = message]

\* resetReasoningPanel(show): the text is cleared only when the panel is shown
ResetReasoningPanel(S, show) ==
    IF show THEN [S EXCEPT !.ui.reasoningText = <<>>] ELSE S

\* setTranslating(value): the second handler also disables the button
setTranslating(h, S, value) ==
    [S EXCEPT !.isTranslating[h] = value,
              !.ui.btnDisabled = IF h = "B" THEN value ELSE @]

\* callbacks that coalesce: onContent leaves the text for onDone to show
ApplyCallbackCoalescing(h, S, cb) ==
    CASE cb.cb = "onContent" ->
            [S EXCEPT !.ui.translationStatus = "streaming"]
      [] cb.cb = "onReasoning" ->
            [S EXCEPT !.ui.reasoningText = cb.arg]
      [] cb.cb = "onDone" ->
            [S EXCEPT !.ui.targetText = cb.arg, !.ui.translationStatus = ""]
      [] cb.cb = "onError" ->
            IF h = "A" /\ cb.arg.name = "AbortError" THEN S
            ELSE ShowToast([S EXCEPT !.ui.translationStatus = ""], cb.arg.message)

\* the callbacks translate() passes to translateStream
ApplyCallback(h, S, cb) ==
    CASE cb.cb = "onContent" ->
            [S EXCEPT !.ui.targetText = cb.arg, !.ui.translationStatus = "streaming"]
      [] cb.cb = "onReasoning" ->
            [S EXCEPT !.ui.reasoningText = cb.arg]
      [] cb.cb = "onDone" ->
            [S EXCEPT !.ui.targetText = cb.arg, !.ui.translationStatus = ""]
      [] cb.cb = "onError" ->
            IF h = "A" /\ cb.arg.name = "AbortError" THEN S
            ELSE ShowToast([S EXCEPT !.ui.translationStatus = ""], cb.arg.message)

RECURSIVE ApplyCallbacks(_, _, _)
ApplyCallbacks(h, S, cbs) ==
    IF cbs = <<>> THEN S
    ELSE ApplyCallbacks(h, ApplyCallback(h, S, Head(cbs)), Tail(cbs))

\* the catch block of translate()
Catch(h, S, error) ==
    IF h = "A" /\ (error.name = "AbortError" \/ IndexOf(error.message, Aborted) # -1)
    THEN [S EXCEPT !.ui.translationStatus = "cancelled"]
    ELSE ShowToast([S EXCEPT !.ui.translationStatus = ""], error.message)

\* translate() without its finally block: isTranslating stays set
FinallyOmitted(h, S) == S

\* the finally block of translate()
Finally(h, S) == setTranslating(h, S, FALSE)

\* translate() resumes: the adapter call moved from S.call[h] to c
Deliver(h, S, c) ==
    LET old == S.call[h].st.log
        S1 == ApplyCallbacks(h, [S EXCEPT !.call[h] = c],
                             SubSeq(c.st.log, Len(old) + 1, Len(c.st.log)))
        shown == ResetReasoningPanel(
                     [S1 EXCEPT !.ui.targetText = c.result, !.ui.translationStatus = ""],
                     FALSE)
    IN  IF c.pc = "resolved" THEN Finally(h, IF c.mode = "once" THEN shown ELSE S1)
        ELSE IF c.pc = "rejected" THEN Finally(h, Catch(h, S1, c.error))
        ELSE S1

\* translate() with ProviderFactory.create outside its try block: the error
\* of an unknown type leaves translate() before catch and finally can run
BeginCreateUncaught(h, S, inp) ==
    LET providerType == ProviderType(inp.provider)
        mode == IF h = "A" /\ ~inp.stream THEN "once" ELSE "stream"
        S1 == ResetReasoningPanel(
                  [setTranslating(h, S, TRUE) EXCEPT
                       !.call[h] = IdleCall,
                       !.ui.translationStatus = "streaming",
                       !.ui.targetText = <<>>],
                  providerType \in {"claude", "llamacpp"})
        S2 == IF mode = "once" THEN [S1 EXCEPT !.ui.translationStatus = "translating"] ELSE S1
    IN  IF providerType \notin Providers
        THEN S1
        ELSE Deliver(h, S2, StartCall(providerType, mode, inp.config))

\* translate() from setTranslating(true) to its await: ProviderFactory.create
\* throws for an unknown type, the first handler honours streamToggle
Begin(h, S, inp) ==
    LET providerType == ProviderType(inp.provider)
        mode == IF h = "A" /\ ~inp.stream THEN "once" ELSE "stream"
        S1 == ResetReasoningPanel(
                  [setTranslating(h, S, TRUE) EXCEPT
                       !.call[h] = IdleCall,
                       !.ui.translationStatus = "streaming",
                       !.ui.targetText = <<>>],
                  providerType \in {"claude", "llamacpp"})
        S2 == IF mode = "once" THEN [S1 EXCEPT !.ui.translationStatus = "translating"] ELSE S1
    IN  IF providerType \notin Providers
        THEN Finally(h, Catch(h, S1, Err("Error", <<"Unknown provider: ", providerType>>)))
        ELSE Deliver(h, S2, StartCall(providerType, mode, inp.config))

\* translate() of the first handler (app.js 280-412)
TranslateA(S, inp) ==
    IF inp.textEmpty THEN ShowToast(S, <<"enter the text to translate">>)
    ELSE IF S.isTranslating["A"]
    THEN IF S.abortController # "null"
         THEN ShowToast([S EXCEPT !.signalAborted = TRUE, !.abortController = "null"],
                        <<"translation stopped">>)
         ELSE S
    ELSE Begin("A", [S EXCEPT !.abortController = "set", !.signalAborted = FALSE], inp)

\* translate() of the second handler (app.js 1339-1422)
TranslateB(S, inp) ==
    IF inp.textEmpty THEN ShowToast(S, <<"enter the text to translate">>)
    ELSE IF S.isTranslating["B"] THEN S
    ELSE Begin("B", S, inp)

Become(S) ==
    /\ call' = S.call
    /\ isTranslating' = S.isTranslating
    /\ abortController' = S.abortController
    /\ signalAborted' = S.signalAborted
    /\ ui' = S.ui
    /\ UNCHANGED direct

\* the translate() listeners of both handlers run, in registration order
Listeners(inp) ==
    \E S1 \in {TranslateA(Snapshot, inp)} :
        \E S2 \in {TranslateB(S1, inp)} : Become(S2)

\* A click on translateBtn or Ctrl+Enter in sourceText.  A disabled button
\* fires no click.
Trigger ==
    \E kind \in {"click", "ctrl+enter"}, inp \in Inputs :
        /\ kind = "click" => ~ui.btnDisabled
        /\ Listeners(inp)

\* bodies sent to a request made from the page
PageStreamBody(provider) ==
    CASE provider \in {"openai", "openai-compatible"} -> SSE(Obj(<<KContent, "a">>))
      [] provider = "claude" -> SSE(Obj(<<EBlockDelta, EThinkingDelta, KThinking, "r">>))
                                  \o SSE(Obj(<<EBlockDelta, ETextDelta, KText, "a">>))
      [] provider = "gemini" -> SSE(Obj(<<KGemini, "a">>))
      [] provider = "ollama" -> NDJ(Obj(<<KOllama, "a">>))
      [] provider = "llamacpp" -> SSE(Obj(<<KContent, "a">> \o ThinkOpen \o <<"r">>))

PageResponses(c) ==
    { [status |-> "200",
       body |-> IF c.mode = "stream" THEN PageStreamBody(c.provider)
                ELSE Obj(<<OnceKey(c.provider), "a">>)],
      [status |-> "401", body |-> Obj(<<KErrMsg, "b", "a", "d">>)],
      [status |-> "401", body |-> Obj(<<KErrMsg>> \o Aborted)] }

FetchRejects(h) ==
    /\ call[h].pc = "fetch"
    /\ \E c \in {FetchFailed(call[h])} :
          \E S \in {Deliver(h, Snapshot, c)} : Become(S)

FetchResolves(h) ==
    /\ call[h].pc = "fetch"
    /\ \E r \in PageResponses(call[h]) :
          \E c \in {FetchResolved(call[h], r.status, r.body)} :
          \E S \in {Deliver(h, Snapshot, c)} : Become(S)

ErrorBodyArrives(h) ==
    /\ call[h].pc = "errbody"
    /\ \E c \in {ErrorBodyRead(call[h])} :
          \E S \in {Deliver(h, Snapshot, c)} : Become(S)

ChunkArrives(h) ==
    /\ call[h].pc = "read"
    /\ \E n \in 1..(Len(call[h].payload) - call[h].pos) :
          \E c \in {ChunkRead(call[h], n)} :
          \E S \in {Deliver(h, Snapshot, c)} : Become(S)

StreamEnds(h) ==
    /\ call[h].pc = "read"
    /\ call[h].pos = Len(call[h].payload)
    /\ \E c \in {StreamEnded(call[h])} :
          \E S \in {Deliver(h, Snapshot, c)} : Become(S)

ReadFails(h) ==
    /\ call[h].pc = "read"
    /\ \E c \in {ReadFailed(call[h])} :
          \E S \in {Deliver(h, Snapshot, c)} : Become(S)

BodyArrives(h) ==
    /\ call[h].pc = "body"
    /\ \E c \in {BodyRead(call[h])} :
          \E S \in {Deliver(h, Snapshot, c)} : Become(S)

\* a network completion of the request of handler h
NetStep(h) ==
    \/ FetchRejects(h)
    \/ FetchResolves(h)
    \/ ErrorBodyArrives(h)
    \/ ChunkArrives(h)
    \/ StreamEnds(h)
    \/ ReadFails(h)
    \/ BodyArrives(h)

Init ==
    /\ direct = IdleCall
    /\ OrchInit

Next ==
    \/ Trigger
    \/ \E h \in Handlers : NetStep(h)

Spec == Init /\ [][Next]_vars

\* The page under fair transport: every pending network operation
\* eventually completes or fails.  Triggers carry a text and select the
\* OpenAI adapter, with or without its key, streaming or not.
LeanInputs == [textEmpty : {FALSE}, provider : {"openai"}, stream : BOOLEAN,
               config : PageConfigs]

LeanTrigger ==
    \E kind \in {"click", "ctrl+enter"}, inp \in LeanInputs :
        /\ kind = "click" => ~ui.btnDisabled
        /\ Listeners(inp)

FairNext ==
    \/ LeanTrigger
    \/ \E h \in Handlers : NetStep(h)

FairSpec == Init /\ [][FairNext]_vars /\ \A h \in Handlers : WF_vars(NetStep(h))

(***************************************************************************)
(* Properties of the page (Spec, FairSpec)                                 *)
(***************************************************************************)

\* the adapter call of handler h is suspended at a network await
InFlight(h) == call[h].pc \in {"fetch", "errbody", "read", "body"}

Shown == {"onContent", "onReasoning", "onDone"}

\* C3: once cancellation has been signalled during a request, no onContent,
\* onReasoning or onDone is invoked any more, and the call ends rejected
\* with the cancellation error, neither completed nor failed otherwise.
C3_CancelStopsTheStream ==
    [][(signalAborted /\ isTranslating["A"]) =>
          /\ Only(call'["A"].st.log, Shown) = Only(call["A"].st.log, Shown)
          /\ ~isTranslating'["A"] =>
                (call'["A"].pc = "rejected" /\ call'["A"].error.name = "AbortError")]_vars

\* C4: at most one translation request is in flight at any time.
C4_SingleRequestInFlight ==
    Cardinality({h \in Handlers : InFlight(h)}) <= 1

\* the lifecycle state of the request of handler h
Phase(h) ==
    IF ~isTranslating[h] THEN "Idle"
    ELSE CASE call[h].pc \in {"fetch", "errbody"} -> "Requesting"
           [] call[h].pc = "read" -> "Streaming"
           [] call[h].pc = "body" -> "Completing"
           [] OTHER -> "Settled"

\* the transitions of section 4.4; Cancelled is passed through inside the
\* step that runs the catch and the finally block
StatedEdge(h) ==
    LET from == Phase(h)
        to == Phase(h)'
    IN  \/ from = to
        \/ from = "Idle" /\ to = "Requesting"
        \/ from = "Requesting" /\ to \in {"Streaming", "Completing"}
        \/ from \in {"Streaming", "Completing"} /\ to = "Idle"
        \/ from \in {"Requesting", "Streaming"} /\ to = "Idle"
              /\ ui'.translationStatus = "cancelled"

ReturnsToIdle == \A h \in Handlers : isTranslating[h] ~> ~isTranslating[h]

\* C8 as stated: every request follows Idle -> Requesting -> (Streaming |
\* Completing) -> Idle or Requesting|Streaming -> Cancelled -> Idle, and
\* the handler eventually is idle again.
C8_StatedLifecycle ==
    /\ [][\A h \in Handlers : StatedEdge(h)]_vars
    /\ ReturnsToIdle

\* C8 amended: a request may also return from Requesting directly to Idle,
\* which it does when it fails before a response body is read; the handler
\* eventually is idle again when the transport ends or errors.
C8_Lifecycle ==
    /\ [][\A h \in Handlers :
             StatedEdge(h) \/ (Phase(h) = "Requesting" /\ Phase(h)' = "Idle")]_vars
    /\ ReturnsToIdle

C8_Witness ==
    /\ ~isTranslating["A"]
    /\ call["A"].pc = "resolved"
    /\ call["A"].mode = "stream"
    /\ isTranslating["B"]

(***************************************************************************)
(* Properties of the callbacks of one request and of their display         *)
(* (StreamSpec)                                                            *)
(***************************************************************************)

\* what each onContent / onReasoning call of a log added to the text of its
\* kind: the deltas, in the order of the calls
RECURSIVE DeltasFrom(_, _, _)
DeltasFrom(log, content, reasoning) ==
    IF log = <<>> THEN <<>>
    ELSE LET c == Head(log)
         IN  IF c.cb = "onContent"
             THEN <<[cb |-> c.cb, delta |-> SubSeq(c.arg, Len(content) + 1, Len(c.arg))]>>
                      \o DeltasFrom(Tail(log), c.arg, reasoning)
             ELSE IF c.cb = "onReasoning"
             THEN <<[cb |-> c.cb, delta |-> SubSeq(c.arg, Len(reasoning) + 1, Len(c.arg))]>>
                      \o DeltasFrom(Tail(log), content, c.arg)
             ELSE DeltasFrom(Tail(log), content, reasoning)

\* a is b with some elements left out, the order kept
RECURSIVE IsSubsequence(_, _)
IsSubsequence(a, b) ==
    IF a = <<>> THEN TRUE
    ELSE IF b = <<>> THEN FALSE
    ELSE IF Head(a) = Head(b) THEN IsSubsequence(Tail(a), Tail(b))
    ELSE IsSubsequence(a, Tail(b))

\* the display after the callbacks of a log were applied to the page
Displayed(log) == ApplyCallbacks("A", Snapshot, log).ui

\* C22: the callbacks of one request are delivered in the order in which
\* their frames arrived on the wire, and the page applies them to the
\* display in that order, one by one: (a) the deltas of the calls made so
\* far are deltas of the body's frames in wire order (adapters that pass
\* accumulated text); (b) after each callback the display shows that
\* callback's argument.
C22_CallbacksInWireOrder ==
    direct.mode = "stream" =>
        LET log == direct.st.log
        IN  /\ direct.provider # "llamacpp" =>
                   IsSubsequence(DeltasFrom(log, <<>>, <<>>),
                                 DeltasFrom(Unsplit(direct).log, <<>>, <<>>))
            /\ \A n \in 1..Len(log) :
                   LET shown == Displayed(SubSeq(log, 1, n))
                   IN  /\ log[n].cb \in {"onContent", "onDone"} =>
                             shown.targetText = log[n].arg
                       /\ log[n].cb = "onReasoning" => shown.reasoningText = log[n].arg

\* a stream of reasoning and then content was delivered, in that order, and
\* the display shows both
C22_Witness ==
    /\ direct.mode = "stream"
    /\ direct.provider = "claude"
    /\ Len(direct.st.log) >= 2
    /\ direct.st.log[1] = Callback("onReasoning", <<"r">>, <<>>)
    /\ direct.st.log[2] = Callback("onContent", <<"a">>, <<>>)
    /\ Displayed(direct.st.log).targetText = <<"a">>
    /\ Displayed(direct.st.log).reasoningText = <<"r">>


\* the text of a chunk that is exactly one content_block_delta frame of the
\* given sub-type, <<>> when the chunk is anything else
DeltaFrameText(chunk, subType, key) ==
    LET head == DataPrefix \o <<"{", EBlockDelta, subType, key>>
        text == SubSeq(chunk, Len(head) + 1, Len(chunk) - 2)
    IN  IF /\ Len(chunk) > Len(head) + 2
           /\ StartsWith(chunk, head)
           /\ SubSeq(chunk, Len(chunk) - 1, Len(chunk)) = <<"}", "\n">>
           /\ \A k \in 1..Len(text) : text[k] \notin StructUnits \cup EnumUnits \cup StrKeys
        THEN text ELSE <<>>

\* C23: in the explicit-blocks (Claude) stream a thinking_delta frame appends
\* delta.thinking to the reasoning accumulator only and invokes onReasoning
\* only, a text_delta frame appends delta.text to the content accumulator
\* only and invokes onContent only, whatever block type the last
\* content_block_start announced (the block type itself is left as it was).
C23_RoutedBySubType ==
    [][ ( /\ direct.mode = "stream"
          /\ direct.provider = "claude"
          /\ direct.pc = "read"
          /\ direct'.pos > direct.pos )
        => LET chunk == SubSeq(direct.payload, direct.pos + 1, direct'.pos)
               thinking == DeltaFrameText(chunk, EThinkingDelta, KThinking)
               text == DeltaFrameText(chunk, ETextDelta, KText)
               st == direct.st
           IN  /\ thinking # <<>> =>
                     direct'.st = [st EXCEPT
                         !.fullReasoning = @ \o thinking,
                         !.log = Append(@, Callback("onReasoning",
                                                    st.fullReasoning \o thinking, <<>>))]
               /\ text # <<>> =>
                     direct'.st = [st EXCEPT
                         !.fullContent = @ \o text,
                         !.log = Append(@, Callback("onContent",
                                                    st.fullContent \o text, <<>>))]
      ]_vars

\* a thinking_delta arrived inside a block announced as text and went to the
\* reasoning
C23_Witness ==
    /\ direct.mode = "stream"
    /\ direct.provider = "claude"
    /\ direct.st.currentBlockType = "text"
    /\ direct.st.fullContent = <<>>
    /\ direct.st.fullReasoning = <<"r">>
    /\ direct.st.log = <<Callback("onReasoning", <<"r">>, <<>>)>>


(***************************************************************************)
(* BaseProvider.buildPrompt called directly (PromptSpec)                   *)
(***************************************************************************)

SourceLangMark == <<"{", "s", "o", "u", "r", "c", "e", "_", "l", "a", "n", "g", "}">>
TargetLangMark == <<"{", "t", "a", "r", "g", "e", "t", "_", "l", "a", "n", "g", "}">>
TextMark       == <<"{", "t", "e", "x", "t", "}">>

\* `languages[code] || code` for the codes the page offers and one it does not
getLanguageName(code) ==
    CASE code = <<"k", "o">> -> <<"K", "o", "r", "e", "a", "n">>
      [] code = <<"e", "n">> -> <<"E", "n", "g", "l", "i", "s", "h">>
      [] OTHER -> code

\* the replacement string of String.prototype.replace, expanded for one
\* match of a pattern without capture groups: $$ is a dollar sign, $& the
\* match, $` the text before the match, $' the text after it
RECURSIVE ExpandReplacement(_, _, _, _)
ExpandReplacement(repl, match, before, after) ==
    IF repl = <<>> THEN <<>>
    ELSE IF Head(repl) = "$" /\ Len(repl) >= 2 /\ repl[2] \in {"$", "&", "`", "'"}
    THEN (CASE repl[2] = "$" -> <<"$">>
            [] repl[2] = "&" -> match
            [] repl[2] = "`" -> before
            [] repl[2] = "'" -> after)
         \o ExpandReplacement(Slice(repl, 2), match, before, after)
    ELSE <<Head(repl)>> \o ExpandReplacement(Tail(repl), match, before, after)

\* s.replace(/pat/g, repl) for a literal pattern, from offset i on
RECURSIVE ReplaceFrom(_, _, _, _)
ReplaceFrom(s, pat, repl, i) ==
    IF i >= Len(s) THEN <<>>
    ELSE IF i + Len(pat) <= Len(s) /\ SubSeq(s, i + 1, i + Len(pat)) = pat
    THEN ExpandReplacement(repl, pat, SubSeq(s, 1, i),
                           SubSeq(s, i + Len(pat) + 1, Len(s)))
         \o ReplaceFrom(s, pat, repl, i + Len(pat))
    ELSE <<s[i + 1]>> \o ReplaceFrom(s, pat, repl, i + 1)

buildPrompt(text, sourceLang, targetLang, userPrompt) ==
    LET sourceLangName == getLanguageName(sourceLang)
        targetLangName == getLanguageName(targetLang)
        first == ReplaceFrom(userPrompt, SourceLangMark, sourceLangName, 0)
        second == ReplaceFrom(first, TargetLangMark, targetLangName, 0)
    IN  ReplaceFrom(second, TextMark, text, 0)

\* templates and source texts: up to MaxPromptPieces pieces each
MaxPromptPieces == 2

TemplatePieces == {SourceLangMark, TargetLangMark, TextMark,
                   <<"{", "T", "E", "X", "T", "}">>, <<"a">>}
TextPieces == {TextMark, TargetLangMark, <<"a">>, <<"$">>, <<"&">>, <<"'">>}
LangCodes == {<<"k", "o">>, <<"e", "n">>, <<"x", "x">>}

RECURSIVE PiecesOf(_, _)
PiecesOf(pieces, n) ==
    IF n = 0 THEN {<<>>}
    ELSE LET shorter == PiecesOf(pieces, n - 1)
         IN  shorter \cup {t \o p : t \in shorter, p \in pieces}

NoPrompt == [pc |-> "idle"]

PromptInit ==
    /\ direct = NoPrompt
    /\ OrchInit

BuildPrompt ==
    /\ direct.pc = "idle"
    /\ \E userPrompt \in PiecesOf(TemplatePieces, MaxPromptPieces),
          text \in PiecesOf(TextPieces, MaxPromptPieces),
          sourceLang \in LangCodes, targetLang \in LangCodes :
          direct' = [pc |-> "built", userPrompt |-> userPrompt, text |-> text,
                     sourceLang |-> sourceLang, targetLang |-> targetLang,
                     prompt |-> buildPrompt(text, sourceLang, targetLang, userPrompt)]
    /\ UNCHANGED orchVars

PromptNext == BuildPrompt

PromptSpec == PromptInit /\ [][PromptNext]_vars

\* the template with every placeholder replaced by its value, in one pass
\* from left to right, the values copied as they are
RECURSIVE Substituted(_, _, _, _)
Substituted(template, text, sourceLangName, targetLangName) ==
    IF template = <<>> THEN <<>>
    ELSE IF StartsWith(template, SourceLangMark)
    THEN sourceLangName \o Substituted(Slice(template, Len(SourceLangMark)),
                                       text, sourceLangName, targetLangName)
    ELSE IF StartsWith(template, TargetLangMark)
    THEN targetLangName \o Substituted(Slice(template, Len(TargetLangMark)),
                                       text, sourceLangName, targetLangName)
    ELSE IF StartsWith(template, TextMark)
    THEN text \o Substituted(Slice(template, Len(TextMark)),
                             text, sourceLangName, targetLangName)
    ELSE <<Head(template)>> \o Substituted(Tail(template), text,
                                           sourceLangName, targetLangName)

\* C24: buildPrompt replaces every occurrence of {source_lang}, {target_lang}
\* and {text} in the template, case-sensitively, and each value is inserted
\* verbatim and is not scanned again: the prompt is the template with each
\* placeholder replaced by its value as it is.
C24_SubstitutionVerbatim ==
    direct.pc = "built" =>
        direct.prompt = Substituted(direct.userPrompt, direct.text,
                                    getLanguageName(direct.sourceLang),
                                    getLanguageName(direct.targetLang))


\* C25: a user cancellation is never reported as a generic failure: when
\* the request of the first handler ends after the user cancelled it,
\* no failure notification is shown for it, by onError or by the catch
\* path, and the status shows the cancelled state.
C25_CancelIsNotAFailure ==
    [][ (signalAborted /\ isTranslating["A"] /\ ~isTranslating'["A"])
        => /\ ui'.translationStatus = "cancelled"
           /\ ui'.toast = ui.toast
      ]_vars


\* C26: the chat-completions adapters (OpenAI, OpenAI-compatible) use the
\* tag-based fallback: inline <think>...</think> markup that arrives in
\* choices[0].delta.content is never delivered as visible text to onContent
\* or onDone, and is not returned.
C26_ChatCompletionsSeparateThink ==
    (direct.mode = "stream" /\ direct.provider \in {"openai", "openai-compatible"}) =>
        /\ \A k \in 1..Len(direct.st.log) :
               direct.st.log[k].cb \in {"onContent", "onDone"} =>
                   ~HasMarker(direct.st.log[k].arg)
        /\ direct.pc = "resolved" => ~HasMarker(direct.result)


\* the message of `throw new Error(`Unknown provider: ${providerType}`)`
UnknownProvider(inp) == <<"Unknown provider: ", ProviderType(inp.provider)>>

\* translate() of handler h run on the current page with the input inp
Translated(h, inp) ==
    IF h = "A" THEN TranslateA(Snapshot, inp) ELSE TranslateB(Snapshot, inp)

\* C27: ProviderFactory.create called with an identifier outside the
\* registered set fails with an unknown-provider error; translate() then
\* ends the request and is idle again, with no network I/O and no
\* onContent, onReasoning or onDone: whenever a handler is idle and is
\* triggered with such a provider, it is idle afterwards, its adapter call
\* never started, and the error's message is shown.
C27_UnknownProviderEndsRequest ==
    \A h \in Handlers, inp \in Inputs :
        (~isTranslating[h] /\ ~inp.textEmpty /\ ProviderType(inp.provider) \notin Providers)
        => LET S == Translated(h, inp)
           IN  /\ ~S.isTranslating[h]
               /\ S.call[h].pc = "idle"
               /\ S.call[h].fetches = 0
               /\ S.call[h].st.log = <<>>
               /\ S.ui.toast = UnknownProvider(inp)
               /\ S.ui.translationStatus = ""

\* a trigger with the unregistered provider has run: both handlers are idle,
\* no request was made and the message is shown
C27_Witness ==
    /\ ui.toast = <<"Unknown provider: ", "translategemma">>
    /\ \A h \in Handlers : ~isTranslating[h] /\ call[h].pc = "idle" /\ call[h].fetches = 0


\* C28: each failed translation request produces exactly one short
\* user-visible error message, in streaming and in non-streaming mode: in
\* the step in which the adapter call of a handler fails, the page's one
\* notification element comes to show the message of that error.
C28_OneMessagePerFailure ==
    [][ \A h \in Handlers :
            (call'[h] # call[h] /\ call'[h].pc = "rejected")
            => ui'.toast = call'[h].error.message
      ]_vars



(***************************************************************************)
(* HistoryManager of src/charuser/script.js (HistorySpec)                  *)
(*                                                                         *)
(* A record is represented by the number of the add() call that made it:   *)
(* a later add has a later timestamp and a larger number.                  *)
(***************************************************************************)

MAX_ITEMS == 100

\* an add that appends and keeps the first MAX_ITEMS: the new record is the
\* one that goes
HistoryPush(history, item) ==
    LET longer == history \o <<item>>
    IN  IF Len(longer) > MAX_ITEMS THEN SubSeq(longer, 1, MAX_ITEMS) ELSE longer

\* this.history.unshift(item); slice(0, MAX_ITEMS) when longer
HistoryUnshift(history, item) ==
    LET longer == <<item>> \o history
    IN  IF Len(longer) > MAX_ITEMS THEN SubSeq(longer, 1, MAX_ITEMS) ELSE longer

\* history.findIndex(item => item.id === id), from 1; 0 when there is none
HistoryFindIndex(history, id) ==
    IF \E k \in 1..Len(history) : history[k] = id
    THEN CHOOSE k \in 1..Len(history) :
             history[k] = id /\ \A j \in 1..(k - 1) : history[j] # id
    ELSE 0

\* this.history.splice(index, 1)
HistorySplice(history, index) ==
    SubSeq(history, 1, index - 1) \o SubSeq(history, index + 1, Len(history))

\* the records n, n-1, ..., 1: what n add() calls leave behind
RECURSIVE Newest(_)
Newest(n) == IF n = 0 THEN <<>> ELSE <<n>> \o Newest(n - 1)

\* the number of add, remove and clear calls made after the page loaded
MaxHistoryOps == 3

\* load(): what an earlier session saved, or [] when nothing is stored
StoredHistories == {Newest(n) : n \in {0, 1, MAX_ITEMS - 1, MAX_ITEMS}}

\* save(): localStorage.setItem may throw (quota); the error is swallowed
HistorySave(m, ok) == IF ok THEN [m EXCEPT !.stored = m.history] ELSE m

HistoryInit ==
    /\ \E h \in StoredHistories :
          direct = [pc |-> "history", history |-> h, stored |-> h,
                    added |-> Len(h), ops |-> 0, returned |-> "none"]
    /\ OrchInit

\* add(entry)
HistoryAdd ==
    /\ direct.ops < MaxHistoryOps
    /\ \E ok \in BOOLEAN :
          direct' = HistorySave(
                        [direct EXCEPT !.history = HistoryUnshift(@, direct.added + 1),
                                       !.added = @ + 1,
                                       !.ops = @ + 1,
                                       !.returned = "item"], ok)
    /\ UNCHANGED orchVars

\* remove(id): of the newest, of the oldest, of one in between, or of a
\* record that is not there
HistoryRemove ==
    /\ direct.ops < MaxHistoryOps
    /\ \E id \in {direct.added, direct.added - 1, direct.added - MAX_ITEMS + 1, 1, 0},
          ok \in BOOLEAN :
          LET index == HistoryFindIndex(direct.history, id)
          IN  direct' = IF index # 0
                        THEN HistorySave(
                                 [direct EXCEPT !.history = HistorySplice(@, index),
                                                !.ops = @ + 1,
                                                !.returned = "true"], ok)
                        ELSE [direct EXCEPT !.ops = @ + 1, !.returned = "false"]
    /\ UNCHANGED orchVars

\* clear()
HistoryClear ==
    /\ direct.ops < MaxHistoryOps
    /\ \E ok \in BOOLEAN :
          direct' = HistorySave([direct EXCEPT !.history = <<>>,
                                               !.ops = @ + 1,
                                               !.returned = "none"], ok)
    /\ UNCHANGED orchVars

HistoryNext ==
    \/ HistoryAdd
    \/ HistoryRemove
    \/ HistoryClear

HistorySpec == HistoryInit /\ [][HistoryNext]_vars

\* C29: the history is bounded: after any sequence of add, remove and clear
\* it holds at most MAX_ITEMS records, ordered newest first, and when an add
\* exceeds the bound it is the oldest record that is evicted while the new
\* record is retained.
C29_HistoryBounded ==
    /\ [](/\ Len(direct.history) <= MAX_ITEMS
          /\ \A k \in 1..(Len(direct.history) - 1) :
                 direct.history[k] > direct.history[k + 1])
    /\ [][ direct'.added > direct.added =>
               /\ direct'.history[1] = direct'.added
               /\ IF Len(direct.history) = MAX_ITEMS
                  THEN Tail(direct'.history) = SubSeq(direct.history, 1, MAX_ITEMS - 1)
                  ELSE Tail(direct'.history) = direct.history
         ]_vars

\* an add to a full history has evicted the oldest record
C29_Witness ==
    /\ direct.pc = "history"
    /\ Len(direct.history) = MAX_ITEMS
    /\ direct.history[1] = MAX_ITEMS + 1
    /\ direct.history[MAX_ITEMS] = 2


(***************************************************************************)
(* SettingsManager.get and SettingsManager.set (SettingsSpec)              *)
(*                                                                         *)
(* The settings object is represented by its own properties: a function    *)
(* from the key paths that exist to what is stored there, "obj" for a      *)
(* nested object, "null", or a string value written with its quotes.       *)
(***************************************************************************)

\* a part of this.defaults: a string, a nested object and a null
DefaultSettings ==
    (<<"theme">> :> "'light'") @@ (<<"openai">> :> "obj")
        @@ (<<"openai", "apiKey">> :> "''") @@ (<<"selectedCustomEndpoint">> :> "null")

\* the properties every object inherits from Object.prototype (`k in obj` is
\* true for them): one of them, a function
InheritedKeys == {"constructor"}

SettingKeys == {"theme", "openai", "apiKey", "selectedCustomEndpoint", "constructor"}
SettingValues == {"'v'", "'w'"}

\* key.split('.') of the paths tried: up to MaxPathLen keys
MaxPathLen == 2

RECURSIVE KeyPaths(_)
KeyPaths(n) ==
    IF n = 0 THEN {<<>>}
    ELSE LET shorter == KeyPaths(n - 1)
         IN  shorter \cup {Append(p, k) : p \in shorter, k \in SettingKeys}

SettingPaths == KeyPaths(MaxPathLen) \ {<<>>}

\* what is stored at the object reached by the keys `at`
StoredAt(settings, at) ==
    IF at = <<>> THEN "obj"
    ELSE IF at \in DOMAIN settings THEN settings[at]
    ELSE "fn"

\* `k in value` for the object at `at`: own or inherited
HasKey(settings, at, k) == Append(at, k) \in DOMAIN settings \/ k \in InheritedKeys

\* get(key): the loop over keys from the i-th on, value being what is at `at`
RECURSIVE GetFrom(_, _, _, _)
GetFrom(settings, keys, i, at) ==
    IF i > Len(keys) THEN StoredAt(settings, at)
    ELSE IF StoredAt(settings, at) = "obj" /\ HasKey(settings, at, keys[i])
    THEN GetFrom(settings, keys, i + 1, Append(at, keys[i]))
    ELSE "undefined"

SettingsGet(settings, keys) == GetFrom(settings, keys, 1, <<>>)

\* obj[k] = node: whatever was below k is gone with the old value
AssignAt(settings, at, node) ==
    LET kept == {q \in DOMAIN settings : ~IsPrefix(at, q)} \cup {at}
    IN  [q \in kept |-> IF q = at THEN node ELSE settings[q]]

\* set(key, value): the loop over keys from the i-th on, obj being the
\* object at `at`; a null on the way makes `k in obj` or the assignment throw
RECURSIVE SetFrom(_, _, _, _, _)
SetFrom(settings, keys, value, i, at) ==
    IF StoredAt(settings, at) = "null"
    THEN [threw |-> TRUE, settings |-> settings]
    ELSE IF i = Len(keys)
    THEN [threw |-> FALSE, settings |-> AssignAt(settings, Append(at, keys[i]), value)]
    ELSE LET next == Append(at, keys[i])
             made == IF ~HasKey(settings, at, keys[i])
                        \/ StoredAt(settings, next) \notin {"obj", "null"}
                     THEN AssignAt(settings, next, "obj")
                     ELSE settings
         IN  SetFrom(made, keys, value, i + 1, next)

SettingsSet(settings, keys, value) == SetFrom(settings, keys, value, 1, <<>>)

\* the number of set() calls made
MaxSettingsOps == 2

SettingsInit ==
    /\ direct = [pc |-> "settings", settings |-> DefaultSettings,
                 before |-> DefaultSettings, path |-> <<>>, value |-> "undefined",
                 threw |-> FALSE, ops |-> 0]
    /\ OrchInit

\* settings.set(path, value)
SetSetting ==
    /\ direct.ops < MaxSettingsOps
    /\ \E path \in SettingPaths, value \in SettingValues :
          LET done == SettingsSet(direct.settings, path, value)
          IN  direct' = [direct EXCEPT !.settings = done.settings,
                                       !.before = direct.settings,
                                       !.path = path,
                                       !.value = value,
                                       !.threw = done.threw,
                                       !.ops = @ + 1]
    /\ UNCHANGED orchVars

SettingsNext == SetSetting

SettingsSpec == SettingsInit /\ [][SettingsNext]_vars

\* the path names a property that exists: each key is an own property of
\* the object the keys before it lead to
PathPresent(settings, path) ==
    /\ path \in DOMAIN settings
    /\ \A n \in 1..(Len(path) - 1) : settings[SubSeq(path, 1, n)] = "obj"

\* C30: settings round trip: after set(path, v), get(path) returns v, and
\* get of every path that is neither an ancestor nor a descendant of path
\* returns what it returned before; get of an absent path returns undefined
\* without failing.
C30_SettingsRoundTrip ==
    (direct.pc = "settings" /\ direct.ops > 0) =>
        /\ ~direct.threw
        /\ SettingsGet(direct.settings, direct.path) = direct.value
        /\ \A q \in SettingPaths :
               (~IsPrefix(q, direct.path) /\ ~IsPrefix(direct.path, q)) =>
                   SettingsGet(direct.settings, q) = SettingsGet(direct.before, q)
        /\ \A q \in SettingPaths :
               ~PathPresent(direct.settings, q) =>
                   SettingsGet(direct.settings, q) = "undefined"


(***************************************************************************)
(* Properties of one adapter call, continued (StreamSpec)                  *)
(***************************************************************************)

\* C31: streaming and one-shot extraction agree: the visible text the
\* llama.cpp adapter finally delivers in streaming mode (the onDone argument
\* and the returned text) is the text its translate() returns for the same
\* complete response text.
C31_StreamingAgreesWithOneShot ==
    (DirectStreamDone /\ direct.provider = "llamacpp") =>
        LET oneShot == Trim(filterThinkingBlocks(direct.st.fullContent))
        IN  /\ direct.result = oneShot
            /\ LastArg(direct.st.log, "onDone") = oneShot


\* C32: for every adapter the final visible text passed to onDone, and
\* returned, is the trimmed argument of the last onContent call of the
\* stream when there was one: at Done the displayed text changes by
\* trimming only.
C32_DoneIsLastContentTrimmed ==
    (DirectStreamDone /\ Only(direct.st.log, {"onContent"}) # <<>>) =>
        /\ LastArg(direct.st.log, "onDone") = Trim(LastArg(direct.st.log, "onContent"))
        /\ direct.result = Trim(LastArg(direct.st.log, "onContent"))


\* C33: for one translateStream call onDone and onError are never both
\* invoked and neither is invoked more than once; a call that has ended has
\* invoked exactly one of the two.
C33_ExactlyOneTerminalCallback ==
    direct.mode = "stream" =>
        LET terminal == Only(direct.st.log, {"onDone", "onError"})
        IN  /\ Len(terminal) <= 1
            /\ direct.pc \in {"resolved", "rejected"} => Len(terminal) = 1


(***************************************************************************)
(* Properties of the page, continued (Spec)                                *)
(***************************************************************************)

\* the handlers whose translate() sets its in-flight flag and sends its
\* provider request in this step
StartedNow ==
    {h \in Handlers : ~isTranslating[h] /\ isTranslating'[h] /\ call'[h].pc = "fetch"}

\* C34: one user trigger (a click or Ctrl+Enter) while no request is in
\* flight issues exactly one provider request and sets exactly one
\* in-flight flag: the listeners registered by app.js never start two
\* requests for the same trigger.
C34_OneRequestPerTrigger ==
    [][(\A h \in Handlers : ~isTranslating[h]) =>
          /\ Cardinality(StartedNow) <= 1
          /\ Cardinality({h \in Handlers : isTranslating'[h]}) <= 1]_vars



\* C35: every provider identifier that providerSelect offers (each base
\* provider and each custom-<id>) resolves through ProviderFactory.create:
\* translate() never fails with the unknown-provider error for a selectable
\* provider, so that error's message is never on the page for one of them.
C35_OfferedProvidersResolve ==
    \A p \in ProviderOptions :
        ui.toast # <<"Unknown provider: ", ProviderType(p)>>



(***************************************************************************)
(* updateProviderModels of app.js and its callers (SelectSpec)             *)
(***************************************************************************)

\* the options the user switches between
SelectOptions == {"openai", "ollama", "custom-1"}

MaxPendingFetches == 2

\* The page after init() reached its await: providerSelect holds the saved
\* provider, modelSelect its static markup, and updateProviderModels()
\* waits for ProviderFactory.fetchModels.  pending holds the suspended
\* calls of updateProviderModels, each with its providerType and its
\* forceRefresh; modelSelect.of is the provider type whose models the list
\* shows.
SelectPage ==
    [pc |-> "select",
     providerSelect |-> "openai",
     modelSelect |-> [of |-> "markup", disabled |-> FALSE],
     isFetchingModels |-> TRUE,
     pending |-> << [providerType |-> "openai", forceRefresh |-> FALSE] >>,
     toast |-> ""]

SelectInit ==
    /\ direct = SelectPage
    /\ OrchInit

\* updateProviderModels(forceRefresh) up to its await
updateProviderModels(page, forceRefresh) ==
    LET providerType == ProviderType(page.providerSelect)
        loading == IF forceRefresh \/ page.isFetchingModels
                   THEN [page EXCEPT !.modelSelect = [of |-> "loading", disabled |-> TRUE]]
                   ELSE page
    IN  [loading EXCEPT
            !.isFetchingModels = TRUE,
            !.pending = Append(@, [providerType |-> providerType,
                                   forceRefresh |-> forceRefresh])]

\* updateProviderModels after its await, for the suspended call i: the list
\* is rebuilt from the models fetched for that call's providerType (or from
\* its default models in the catch block), then the finally block runs
ModelsArrive(page, i) ==
    LET this == page.pending[i]
        rest == SubSeq(page.pending, 1, i - 1)
                    \o SubSeq(page.pending, i + 1, Len(page.pending))
    IN  [page EXCEPT
            !.modelSelect = [of |-> this.providerType, disabled |-> FALSE],
            !.toast = IF this.forceRefresh THEN "models loaded" ELSE @,
            !.isFetchingModels = FALSE,
            !.pending = rest]

\* the change listener of providerSelect
ProviderChanged ==
    /\ Len(direct.pending) < MaxPendingFetches
    /\ \E p \in SelectOptions \ {direct.providerSelect} :
          direct' = updateProviderModels([direct EXCEPT !.providerSelect = p], FALSE)
    /\ UNCHANGED orchVars

\* the click listener of refreshModelsBtn
RefreshModels ==
    /\ Len(direct.pending) < MaxPendingFetches
    /\ direct' = updateProviderModels(direct, TRUE)
    /\ UNCHANGED orchVars

\* a fetchModels promise settles, in any order
ModelsSettled ==
    /\ \E i \in 1..Len(direct.pending) : direct' = ModelsArrive(direct, i)
    /\ UNCHANGED orchVars

SelectNext ==
    \/ ProviderChanged
    \/ RefreshModels
    \/ ModelsSettled

SelectSpec == SelectInit /\ [][SelectNext]_vars

\* C36: model-list fetches do not race: a late response for a previously
\* selected provider never overwrites the list of the currently selected
\* provider.  Whenever modelSelect shows the models of the provider in
\* providerSelect and a response fills it, it shows them afterwards.
C36_LateResponseKeepsList ==
    [][(/\ direct.pc = "select"
        /\ Len(direct'.pending) < Len(direct.pending)
        /\ direct.modelSelect.of = ProviderType(direct.providerSelect)) =>
          direct'.modelSelect.of = ProviderType(direct'.providerSelect)]_vars


(***************************************************************************)
(* SettingsManager: load, save, set, import, resetPrompts (ManagerSpec)    *)
(*                                                                         *)
(* this.defaults has string properties and nested objects.  A property of  *)
(* this.settings is a value (Atom), an object of its own (Plain), or the   *)
(* very object that this.defaults holds under a key (OfDefaults): a write  *)
(* through the latter changes this.defaults.                               *)
(***************************************************************************)

Atom(v) == [t |-> "atom", v |-> v]
Plain(o) == [t |-> "object", o |-> o]
OfDefaults(k) == [t |-> "defaults", k |-> k]

NoProps == [k \in {} |-> "''"]

\* obj[k] = v
Put(obj, k, v) == [x \in DOMAIN obj \cup {k} |-> IF x = k THEN v ELSE obj[x]]

\* the string properties and the nested objects of this.defaults, as the
\* constructor writes them
DefaultAtoms == ("theme" :> "'light'")
BuiltInObjects ==
    ("prompts" :> (("system" :> "'S'") @@ ("user" :> "'U'")))
        @@ ("openai" :> ("apiKey" :> "''"))

\* { ...this.defaults }: the nested objects are not copied
SpreadDefaults ==
    [k \in DOMAIN DefaultAtoms \cup DOMAIN BuiltInObjects |->
        IF k \in DOMAIN DefaultAtoms THEN Atom(DefaultAtoms[k]) ELSE OfDefaults(k)]

\* the properties of the object a node of this.settings stands for
Props(m, node) == IF node.t = "defaults" THEN m.defaults[node.k] ELSE node.o

\* mergeDeep(target[key] || {}, source[key]) for an object of string
\* properties: { ...target } and then every key of source
MergeProps(target, source) ==
    [k \in DOMAIN target \cup DOMAIN source |->
        IF k \in DOMAIN source THEN source[k] ELSE target[k]]

\* mergeDeep(this.defaults, source): for-in visits no key of null
mergeDeep(m, source) ==
    LET result == SpreadDefaults
        keys == IF source.t = "object" THEN DOMAIN source.o ELSE {}
    IN  [k \in DOMAIN result \cup keys |->
            IF k \notin keys THEN result[k]
            ELSE IF source.o[k].t = "object"
            THEN Plain(MergeProps(IF k \in DOMAIN m.defaults THEN m.defaults[k]
                                  ELSE NoProps,
                                  source.o[k].o))
            ELSE source.o[k]]

\* JSON.stringify(this.settings)
Stringify(m) ==
    Plain([k \in DOMAIN m.settings |->
              IF m.settings[k].t = "atom" THEN m.settings[k]
              ELSE Plain(Props(m, m.settings[k]))])

\* what localStorage holds under STORAGE_KEY: nothing, or a text that is
\* JSON for doc or is not JSON
NoItem == [t |-> "none"]
Text(valid, doc) == [t |-> "text", valid |-> valid, doc |-> doc]
NotJsonText == Text(FALSE, Atom("null"))

\* save()
save(m) == [m EXCEPT !.storage = Text(TRUE, Stringify(m))]

\* load()
load(m) ==
    IF m.storage.t = "text" /\ m.storage.valid
    THEN mergeDeep(m, m.storage.doc)
    ELSE SpreadDefaults

\* new SettingsManager() on a page whose localStorage holds `storage`
NewManager(storage) ==
    LET m == [defaults |-> BuiltInObjects, settings |-> SpreadDefaults,
              storage |-> storage]
    IN  [m EXCEPT !.settings = load(m)]

\* set(key, value) for key.split('.') of one or two keys; with two keys and
\* null under the first, `obj[k] = value` throws and nothing is written
ManagerSet(m, keys, value) ==
    IF Len(keys) = 1
    THEN [m EXCEPT !.settings = Put(@, keys[1], Atom(value))]
    ELSE LET k == keys[1]
         IN  IF k \notin DOMAIN m.settings
                \/ (m.settings[k].t = "atom" /\ m.settings[k].v # "null")
             THEN [m EXCEPT !.settings = Put(@, k, Plain(Put(NoProps, keys[2], value)))]
             ELSE IF m.settings[k].t = "atom"
             THEN m
             ELSE IF m.settings[k].t = "defaults"
             THEN [m EXCEPT !.defaults[m.settings[k].k] = Put(@, keys[2], value)]
             ELSE [m EXCEPT !.settings[k] = Plain(Put(@.o, keys[2], value))]

\* resetPrompts()
resetPrompts(m) ==
    save([m EXCEPT !.settings = Put(@, "prompts", Plain(m.defaults["prompts"]))])

\* a file given to import(): unreadable, or read as a text
Unreadable == [t |-> "unreadable"]

Resolved == [settled |-> "resolved", message |-> ""]
Rejected(message) == [settled |-> "rejected", message |-> message]

\* import(file) that treats a text it cannot parse as an empty document
ImportUnparsedAsEmpty(m, file) ==
    IF file.t = "unreadable"
    THEN [m |-> m, outcome |-> Rejected("cannot read the file")]
    ELSE IF ~file.valid
    THEN [m |-> save([m EXCEPT !.settings = mergeDeep(m, Plain(NoProps))]),
          outcome |-> Rejected("not a valid settings file")]
    ELSE [m |-> save([m EXCEPT !.settings = mergeDeep(m, file.doc)]),
          outcome |-> Resolved]

\* import(file), until its promise settles
Import(m, file) ==
    IF file.t = "unreadable"
    THEN [m |-> m, outcome |-> Rejected("cannot read the file")]
    ELSE IF ~file.valid
    THEN [m |-> m, outcome |-> Rejected("not a valid settings file")]
    ELSE [m |-> save([m EXCEPT !.settings = mergeDeep(m, file.doc)]),
          outcome |-> Resolved]

\* the documents tried give an object only under keys whose default is an
\* object or absent
Documents ==
    { Atom("null"),
      Plain("theme" :> Atom("'dark'")),
      Plain("prompts" :> Plain("user" :> "'x'")),
      Plain("prompts" :> Atom("null")),
      Plain("openai" :> Atom("'k'")) }

ImportFiles == {Unreadable, NotJsonText} \cup {Text(TRUE, d) : d \in Documents}

\* what the storage of a first visit or of an earlier visit holds
InitialStorages == {NoItem, NotJsonText, Text(TRUE, Plain("theme" :> Atom("'dark'")))}

ManagerPaths == {<<"theme">>, <<"prompts", "system">>, <<"prompts", "user">>}

\* the number of calls made on the manager
MaxManagerOps == 3

ManagerState(m, last, file, outcome, ops) ==
    [pc |-> "manager", defaults |-> m.defaults, settings |-> m.settings,
     storage |-> m.storage, last |-> last, file |-> file, outcome |-> outcome,
     ops |-> ops]

Manager == [defaults |-> direct.defaults, settings |-> direct.settings,
            storage |-> direct.storage]

ManagerInit ==
    /\ \E storage \in InitialStorages :
          direct = ManagerState(NewManager(storage), "load", Unreadable, Resolved, 0)
    /\ OrchInit

\* the page is loaded again: a new manager on the same localStorage
Reload ==
    /\ direct.ops < MaxManagerOps
    /\ direct' = ManagerState(NewManager(direct.storage), "load", Unreadable, Resolved,
                              direct.ops + 1)
    /\ UNCHANGED orchVars

\* settings.set(path, value)
ManagerSetValue ==
    /\ direct.ops < MaxManagerOps
    /\ \E path \in ManagerPaths :
          direct' = ManagerState(ManagerSet(Manager, path, "'v'"), "set", Unreadable,
                                 Resolved, direct.ops + 1)
    /\ UNCHANGED orchVars

\* settings.save()
ManagerSave ==
    /\ direct.ops < MaxManagerOps
    /\ direct' = ManagerState(save(Manager), "save", Unreadable, Resolved, direct.ops + 1)
    /\ UNCHANGED orchVars

\* settings.resetPrompts()
ManagerResetPrompts ==
    /\ direct.ops < MaxManagerOps
    /\ direct' = ManagerState(resetPrompts(Manager), "resetPrompts", Unreadable, Resolved,
                              direct.ops + 1)
    /\ UNCHANGED orchVars

\* settings.import(file), awaited
ManagerImport ==
    /\ direct.ops < MaxManagerOps
    /\ \E file \in ImportFiles :
          \E done \in {Import(Manager, file)} :
              direct' = ManagerState(done.m, "import", file, done.outcome, direct.ops + 1)
    /\ UNCHANGED orchVars

ManagerNext ==
    \/ Reload
    \/ ManagerSetValue
    \/ ManagerSave
    \/ ManagerResetPrompts
    \/ ManagerImport

ManagerSpec == ManagerInit /\ [][ManagerNext]_vars

\* C37: resetPrompts() restores the built-in prompts whatever load, set,
\* save or import preceded it: after it prompts.system and prompts.user of
\* the settings in memory and of the saved settings are the built-in ones
\* (no set call ever alters the defaults).
C37_ResetRestoresBuiltInPrompts ==
    (direct.pc = "manager" /\ direct.last = "resetPrompts") =>
        /\ Props(Manager, direct.settings["prompts"]) = BuiltInObjects["prompts"]
        /\ direct.storage.doc.o["prompts"].o = BuiltInObjects["prompts"]



\* every key of the defaults is a key of the settings, and where the
\* defaults hold an object the settings hold an object with all its keys
DefaultKeysPresent ==
    /\ \A k \in DOMAIN DefaultAtoms : k \in DOMAIN direct.settings
    /\ \A k \in DOMAIN BuiltInObjects :
          /\ k \in DOMAIN direct.settings
          /\ direct.settings[k].t # "atom"
          /\ DOMAIN BuiltInObjects[k] \subseteq DOMAIN Props(Manager, direct.settings[k])

\* C38: after load() and after import() every key of the defaults exists in
\* the settings at every nesting level: stored or imported data overrides
\* values only, it never removes a default key and never replaces a default
\* object by a non-object.
C38_DefaultsSurviveMerge ==
    (/\ direct.pc = "manager"
     /\ \/ direct.last = "load"
        \/ direct.last = "import" /\ direct.outcome = Resolved)
        => DefaultKeysPresent

\* C39: import() of a text that is not JSON, or of a file that cannot be
\* read, rejects with an error and leaves the settings in memory and the
\* saved settings as they were.
C39_FailedImportChangesNothing ==
    [][(/\ direct.pc = "manager"
        /\ direct'.last = "import"
        /\ direct'.file \in {Unreadable, NotJsonText}) =>
          /\ direct'.outcome.settled = "rejected"
          /\ direct'.outcome.message # ""
          /\ direct'.settings = direct.settings
          /\ direct'.defaults = direct.defaults
          /\ direct'.storage = direct.storage]_vars

\* a text that is not JSON was imported into settings that had been changed
\* and saved: the import is rejected
C39_Witness ==
    /\ direct.pc = "manager"
    /\ direct.last = "import"
    /\ direct.file = NotJsonText
    /\ direct.outcome.settled = "rejected"
    /\ direct.settings["theme"] = Atom("'v'")
    /\ direct.storage.t = "text" /\ direct.storage.valid
    /\ direct.storage.doc.o["theme"] = Atom("'v'")


====
